---- MODULE Spec2Model ----
(***************************************************************************)
(* Mp4Frag (src/README.md, lines 13-911): an incremental parser of a       *)
(* fragmented MP4 byte stream  ftyp, moov, (moof, mdat)+  that arrives in  *)
(* arbitrary chunks.                                                       *)
(*                                                                         *)
(* Representation.                                                         *)
(*  - A Buffer is a sequence of bytes (0..255); JS offsets are 0-based,    *)
(*    so byte i of buf is buf[i+1].                                        *)
(*  - A field that may be undefined holds  undefined (<<>>)  or  Some(v)   *)
(*    (<<v>>).                                                             *)
(*  - _moofBuffer and _mdatBuffer are arrays of chunks in the source; the  *)
(*    only reads of them are Buffer.concat, so they are kept as the        *)
(*    concatenation of their chunks.                                       *)
(*  - A JS number that is computed with +, - or / on non-integers is an    *)
(*    IEEE 754 binary64 value: a sign, an exponent and the 53 bits of the  *)
(*    significand (DDiv, DAdd, DSub round to nearest, ties to even).       *)
(*    _totalDuration is kept that way.                                     *)
(*  - A segment's _duration is the binary64 value nearest to               *)
(*    ticks/timescale or milliseconds/1000.  It is kept as the exact       *)
(*    integer number of units of 1/(1000*timescale) s that it was rounded  *)
(*    from (ToDouble gives the binary64 value); comparing, Math.round and  *)
(*    toFixed(6) give the same on both for the durations of the model.     *)
(*    Every stream of the model has timescale > 0.                         *)
(*  - The instance is one record (variable mp4frag) whose fields are the   *)
(*    fields of the object, without the leading underscore; four ghost     *)
(*    fields are added: events, the log of emit() calls; thrown, set when  *)
(*    an exception left _transform; resyncs, the number of times           *)
(*    _moofSearch found a moof and went back to _findMoof; heard, what a   *)
(*    listener of the segment event read from the accessors each time it   *)
(*    was called.                                                          *)
(***************************************************************************)
EXTENDS Integers, Sequences, FiniteSets, TLC

(***************************************************************************)
(* Values that may be undefined.                                           *)
(***************************************************************************)
undefined == <<>>
Some(v) == <<v>>
IsSet(x) == x # undefined
Get(x) == x[1]

Min2(a, b) == IF a < b THEN a ELSE b
Max2(a, b) == IF a > b THEN a ELSE b

(***************************************************************************)
(* Box tags and numeric constants.                                         *)
(***************************************************************************)
_FTYP == <<102, 116, 121, 112>>
_MOOV == <<109, 111, 111, 118>>
_MDHD == <<109, 100, 104, 100>>
_MOOF == <<109, 111, 111, 102>>
_MDAT == <<109, 100, 97, 116>>
_TFHD == <<116, 102, 104, 100>>
_TRUN == <<116, 114, 117, 110>>
_MFRA == <<109, 102, 114, 97>>
_HVCC == <<104, 118, 99, 67>>
_HEV1 == <<104, 101, 118, 49>>
_HVC1 == <<104, 118, 99, 49>>
_AVCC == <<97, 118, 99, 67>>
_AVC1 == <<97, 118, 99, 49>>
_AVC2 == <<97, 118, 99, 50>>
_AVC3 == <<97, 118, 99, 51>>
_AVC4 == <<97, 118, 99, 52>>
_MP4A == <<109, 112, 52, 97>>
_ESDS == <<101, 115, 100, 115>>
_HLS_INIT_DEF == TRUE
_HLS_SIZE_DEF == 4
_HLS_SIZE_MIN == 2
_HLS_SIZE_MAX == 20
_HLS_EXTRA_DEF == 0
_HLS_EXTRA_MIN == 0
_HLS_EXTRA_MAX == 10
_SEG_SIZE_DEF == 2
_SEG_SIZE_MIN == 2
_SEG_SIZE_MAX == 30
_MOOF_SEARCH_LIMIT == 50

(***************************************************************************)
(* Buffer primitives.                                                      *)
(***************************************************************************)
\* buf[i] : the byte at 0-based offset i, undefined outside the buffer
ByteAt(buf, i) == IF i >= 0 /\ i < Len(buf) THEN Some(buf[i + 1]) ELSE undefined

\* buf.slice(from) and buf.slice(from, to) for 0 <= from
Slice(buf, from, to) == SubSeq(buf, from + 1, Min2(to, Len(buf)))
SliceFrom(buf, from) == SubSeq(buf, from + 1, Len(buf))

\* ConcatTo keeping every byte of the list
ConcatTo_Whole(bytes, total) == bytes

\* Buffer.concat(list, totalLength): the concatenation cut to totalLength
\* (zero-filled when the list is shorter)
ConcatTo(bytes, total) ==
    IF total <= Len(bytes) THEN SubSeq(bytes, 1, total)
    ELSE bytes \o [i \in 1..(total - Len(bytes)) |-> 0]

\* buf.indexOf(tag, from): the first offset >= from where the 4 bytes of tag occur, or -1
IndexOfFrom(buf, tag, from) ==
    LET hits == {i \in from..(Len(buf) - 4) :
                    /\ buf[i + 1] = tag[1] /\ buf[i + 2] = tag[2]
                    /\ buf[i + 3] = tag[3] /\ buf[i + 4] = tag[4]}
    IN IF hits = {} THEN -1 ELSE CHOOSE i \in hits : \A j \in hits : i <= j
IndexOf(buf, tag) == IndexOfFrom(buf, tag, 0)
Includes(buf, tag) == IndexOf(buf, tag) # -1

\* buf.readUInt32BE(off) throws a RangeError unless 0 <= off <= length - 4
CanRead32(buf, off) == off >= 0 /\ off + 4 <= Len(buf)
ReadUInt32BE(buf, off) ==
    ((buf[off + 1] * 256 + buf[off + 2]) * 256 + buf[off + 3]) * 256 + buf[off + 4]

\* n & mask # 0 for a one-bit mask
HasBit(n, mask) == (n \div mask) % 2 = 1

(***************************************************************************)
(* JS numbers as IEEE 754 binary64 values.  A value is                     *)
(* [neg, exp, man]: man is the 53 bits of the significand, most            *)
(* significant first, man[1] = 1, and the value is                         *)
(* (-1)^neg * 1.man[2]man[3]... * 2^exp; zero has man = <<>>.  The model   *)
(* never leaves the range of normal numbers.                               *)
(***************************************************************************)
SignificandBits == 53

\* n zeros (bits or bytes)
Zeros(n) == [i \in 1..n |-> 0]
DZero == [neg |-> FALSE, exp |-> 0, man |-> <<>>]
DIsZero(x) == x.man = <<>>
DNeg(x) == IF DIsZero(x) THEN x ELSE [x EXCEPT !.neg = ~@]

\* Bit strings are added and subtracted 8 bits at a time.
LimbBits == 8
LimbBase == 2 ^ LimbBits
\* the bit string, zero-filled in front to whole limbs, as numbers below 256
LimbsOf(bits) ==
    LET count == (Len(bits) + LimbBits - 1) \div LimbBits
        pad == count * LimbBits - Len(bits)
        bit(i) == IF i <= pad THEN 0 ELSE bits[i - pad]
    IN [k \in 1..count |->
          LET at(i) == bit((k - 1) * LimbBits + i) IN
          128 * at(1) + 64 * at(2) + 32 * at(3) + 16 * at(4)
            + 8 * at(5) + 4 * at(6) + 2 * at(7) + at(8)]
\* the 8 bits of one limb
LimbBitsOf(limb) == [i \in 1..LimbBits |-> (limb \div (2 ^ (LimbBits - i))) % 2]
BitsOfLimbs(limbs) ==
    [i \in 1..(LimbBits * Len(limbs)) |->
        LimbBitsOf(limbs[((i - 1) \div LimbBits) + 1])[((i - 1) % LimbBits) + 1]]

RECURSIVE LimbAdd(_, _, _)
\* a + b + carry for limb strings of one length; the result is one limb longer
LimbAdd(a, b, carry) ==
    IF a = <<>> THEN <<carry>>
    ELSE LET n == Len(a)
             sum == a[n] + b[n] + carry
         IN LimbAdd(SubSeq(a, 1, n - 1), SubSeq(b, 1, n - 1), sum \div LimbBase)
               \o <<sum % LimbBase>>

RECURSIVE LimbSub(_, _, _)
\* a - b - borrow for limb strings of one length, a >= b
LimbSub(a, b, borrow) ==
    IF a = <<>> THEN <<>>
    ELSE LET n == Len(a)
             diff == a[n] - b[n] - borrow
         IN LimbSub(SubSeq(a, 1, n - 1), SubSeq(b, 1, n - 1), IF diff < 0 THEN 1 ELSE 0)
               \o <<(diff + LimbBase) % LimbBase>>

\* bits + 1 for a bit string that is not all ones
Incremented(bits) ==
    LET last == CHOOSE i \in 1..Len(bits) :
                    bits[i] = 0 /\ \A j \in (i + 1)..Len(bits) : bits[j] = 1
    IN [i \in 1..Len(bits) |-> IF i < last THEN bits[i] ELSE IF i = last THEN 1 ELSE 0]

\* raw is an exact bit string whose first bit is 1 and has weight 2^exp:
\* the nearest value with 53 bits, ties to the even one
RoundToDouble(neg, raw, exp) ==
    IF Len(raw) <= SignificandBits
    THEN [neg |-> neg, exp |-> exp, man |-> raw \o Zeros(SignificandBits - Len(raw))]
    ELSE LET keep == SubSeq(raw, 1, SignificandBits)
             guard == raw[SignificandBits + 1]
             sticky == \E i \in (SignificandBits + 2)..Len(raw) : raw[i] = 1
             up == guard = 1 /\ (sticky \/ keep[SignificandBits] = 1)
         IN IF ~up THEN [neg |-> neg, exp |-> exp, man |-> keep]
            ELSE IF \A i \in 1..SignificandBits : keep[i] = 1
                 THEN [neg |-> neg, exp |-> exp + 1, man |-> <<1>> \o Zeros(SignificandBits - 1)]
                 ELSE [neg |-> neg, exp |-> exp, man |-> Incremented(keep)]

\* raw is an exact bit string whose first bit has weight 2^exp
Normalize(neg, raw, exp) ==
    LET ones == {i \in 1..Len(raw) : raw[i] = 1} IN
    IF ones = {} THEN DZero
    ELSE LET first == CHOOSE i \in ones : \A j \in ones : i <= j
         IN RoundToDouble(neg, SubSeq(raw, first, Len(raw)), exp - (first - 1))

\* the binary digits of n < 2^30, most significant first; none for 0
BitsOfNat(n) ==
    LET width == CHOOSE k \in 0..30 : n < 2 ^ k /\ \A j \in 0..(k - 1) : n >= 2 ^ j
    IN [i \in 1..width |-> (n \div (2 ^ (width - i))) % 2]

\* every quotient is taken to 12 limbs after the binary point: 96 bits, of
\* which at most 30 are leading zeros for a denominator below 2^23
FractionLimbs == 3 * 4

RECURSIVE FractionBits(_, _, _)
\* the first 8 * count bits after the binary point of r / den, r < den,
\* then one more bit that is 1 unless the rest is zero
FractionBits(r, den, count) ==
    IF count = 0 THEN <<IF r # 0 THEN 1 ELSE 0>>
    ELSE LimbBitsOf((r * LimbBase) \div den)
            \o FractionBits((r * LimbBase) % den, den, count - 1)

\* num / den for integers 0 <= num < 2^30, 0 < den < 2^23
DDiv(num, den) ==
    LET whole == BitsOfNat(num \div den)
    IN Normalize(FALSE, whole \o FractionBits(num % den, den, FractionLimbs), Len(whole) - 1)

\* |x| < |y| for x, y not zero
MagLess(x, y) ==
    \/ x.exp < y.exp
    \/ /\ x.exp = y.exp
       /\ \E i \in 1..SignificandBits :
             x.man[i] < y.man[i] /\ \A j \in 1..(i - 1) : x.man[j] = y.man[j]

\* x + y
DAdd(x, y) ==
    IF DIsZero(x) THEN y
    ELSE IF DIsZero(y) THEN x
    ELSE LET Aligned(big, a, b, shift) ==
                 \* the weight of the first bit of a limb string as long as a
                 LET top == big.exp + 1 + (LimbBits * Len(a) - (SignificandBits + shift + 1))
                 IN IF x.neg = y.neg
                    THEN Normalize(big.neg, BitsOfLimbs(LimbAdd(a, b, 0)), top + LimbBits)
                    ELSE Normalize(big.neg, BitsOfLimbs(LimbSub(a, b, 0)), top)
             Ordered(big, small) ==
                 Aligned(big, LimbsOf(<<0>> \o big.man \o Zeros(big.exp - small.exp)),
                         LimbsOf(<<0>> \o Zeros(big.exp - small.exp) \o small.man),
                         big.exp - small.exp)
         IN IF MagLess(x, y) THEN Ordered(y, x) ELSE Ordered(x, y)

\* x - y
DSub(x, y) == DAdd(x, DNeg(y))

\* the literal -1
DMinusOne == DNeg(DDiv(1, 1))

(***************************************************************************)
(* Option values as the caller passes them: a JS value is a record whose  *)
(* field t is its type.  NaN stands for every value parseInt turns into    *)
(* NaN.  hlsPlaylistBase is a name of letters and underscores (any other   *)
(* name makes the constructor throw, and no instance exists).              *)
(***************************************************************************)
JsNumber(n) == [t |-> "number", v |-> n]
JsBoolean(b) == [t |-> "boolean", v |-> b]
JsString(s) == [t |-> "string", v |-> s]
\* an option that is absent, where a number, a boolean, a string is expected
NoNumber == [t |-> "undefined", v |-> 0]
NoBoolean == [t |-> "undefined", v |-> FALSE]
NoString == [t |-> "undefined", v |-> ""]
JsNaN == [t |-> "NaN", v |-> 0]

\* _validateNumber without the two comparisons
_validateNumber_NoClamp(n, def, min, max) == IF n.t # "number" THEN def ELSE n.v

_validateNumber(n, def, min, max) ==
    IF n.t # "number" THEN def
    ELSE IF n.v < min THEN min ELSE IF n.v > max THEN max ELSE n.v

\* _validateBoolean ignoring what was supplied
_validateBoolean_Default(bool, def) == def

_validateBoolean(bool, def) == IF bool.t = "boolean" THEN bool.v ELSE def

\* the fields of an object on which nothing has been assigned yet
NoFields ==
    [parseChunk |-> "_findFtyp",
     hlsPlaylistBase |-> undefined, hlsPlaylistInit |-> undefined,
     hlsPlaylistSize |-> undefined, hlsPlaylistExtra |-> undefined,
     segmentCount |-> undefined, segmentObjects |-> undefined,
     timescale |-> undefined, sequence |-> undefined,
     allKeyframes |-> undefined, keyframe |-> undefined,
     mime |-> undefined, videoCodec |-> undefined, audioCodec |-> undefined,
     initialization |-> undefined, segment |-> undefined,
     timestamp |-> undefined, duration |-> undefined,
     totalDuration |-> undefined, totalByteLength |-> undefined,
     moof |-> undefined, moofLength |-> undefined,
     moofBuffer |-> undefined, moofBufferSize |-> undefined,
     moofSearches |-> undefined,
     mdatBuffer |-> undefined, mdatLength |-> undefined,
     mdatBufferSize |-> undefined,
     ftyp |-> undefined, ftypLength |-> undefined,
     m3u8 |-> undefined, setKeyFrame |-> undefined,
     events |-> <<>>, thrown |-> FALSE, resyncs |-> 0, heard |-> <<>>]

\* options is undefined (no argument, or not an object) or Some(record)
constructor(options) ==
    IF ~IsSet(options) THEN NoFields
    ELSE LET o == Get(options) IN
      IF o.hlsPlaylistBase.t # "undefined" THEN
        LET size == _validateNumber(o.hlsPlaylistSize, _HLS_SIZE_DEF, _HLS_SIZE_MIN, _HLS_SIZE_MAX)
            extra == _validateNumber(o.hlsPlaylistExtra, _HLS_EXTRA_DEF, _HLS_EXTRA_MIN, _HLS_EXTRA_MAX)
        IN [NoFields EXCEPT
              !.hlsPlaylistBase = Some(o.hlsPlaylistBase.v),
              !.hlsPlaylistInit = Some(_validateBoolean(o.hlsPlaylistInit, _HLS_INIT_DEF)),
              !.hlsPlaylistSize = Some(size),
              !.hlsPlaylistExtra = Some(extra),
              !.segmentCount = Some(size + extra),
              !.segmentObjects = Some(<<>>)]
      ELSE IF o.segmentCount.t # "undefined" THEN
        [NoFields EXCEPT
              !.segmentCount = Some(_validateNumber(o.segmentCount, _SEG_SIZE_DEF, _SEG_SIZE_MIN, _SEG_SIZE_MAX)),
              !.segmentObjects = Some(<<>>)]
      ELSE NoFields

(***************************************************************************)
(* Accessors.  null is what  x || null  gives for an undefined field.      *)
(***************************************************************************)
null == <<>>

\* a string is truthy unless empty
TruthyString(x) == IsSet(x) /\ Get(x) # ""
\* a number is truthy unless 0
OrMinusOne(x) == IF IsSet(x) /\ Get(x) # 0 THEN Get(x) ELSE -1

mimeOf(m) == m.mime
initializationOf(m) == m.initialization
segmentOf(m) == m.segment
timestampOf(m) == OrMinusOne(m.timestamp)
durationOf(m) == OrMinusOne(m.duration)
totalDurationOf(m) ==
    IF IsSet(m.totalDuration) /\ ~DIsZero(Get(m.totalDuration)) THEN Get(m.totalDuration)
    ELSE DMinusOne
totalByteLengthOf(m) == OrMinusOne(m.totalByteLength)
m3u8Of(m) == m.m3u8
sequenceOf(m) == IF IsSet(m.sequence) THEN Get(m.sequence) ELSE -1
keyframeOf(m) == IF IsSet(m.keyframe) THEN Get(m.keyframe) ELSE TRUE
allKeyframesOf(m) == IF IsSet(m.allKeyframes) THEN Get(m.allKeyframes) ELSE TRUE

segmentObjectOf(m) ==
    [segment |-> segmentOf(m), sequence |-> sequenceOf(m), duration |-> durationOf(m),
     timestamp |-> timestampOf(m), keyframe |-> keyframeOf(m)]

segmentObjectsOf(m) ==
    IF IsSet(m.segmentObjects) /\ Len(Get(m.segmentObjects)) > 0 THEN m.segmentObjects ELSE null

\* getSegmentObject indexing the ring from its front by the sequence number
getSegmentObject_FromFront(m, sequence) ==
    IF IsSet(m.segmentObjects) /\ Len(Get(m.segmentObjects)) > 0 THEN
        IF ~IsSet(sequence) \/ ~IsSet(m.sequence) THEN null
        ELSE LET ring == Get(m.segmentObjects)
                 idx == Get(sequence)
             IN IF idx >= 0 /\ idx < Len(ring) THEN Some(ring[idx + 1]) ELSE null
    ELSE null

\* sequence is what Number.parseInt gave: Some(integer), or undefined for NaN
getSegmentObject(m, sequence) ==
    IF IsSet(m.segmentObjects) /\ Len(Get(m.segmentObjects)) > 0 THEN
        IF ~IsSet(sequence) \/ ~IsSet(m.sequence) THEN null
        ELSE LET ring == Get(m.segmentObjects)
                 idx == Len(ring) - 1 - (Get(m.sequence) - Get(sequence))
             IN IF idx >= 0 /\ idx < Len(ring) THEN Some(ring[idx + 1]) ELSE null
    ELSE null

\* emit(name, payload)
Emit(m, name, payload) == [m EXCEPT !.events = Append(@, [name |-> name, payload |-> payload])]

resetCache(m) ==
    [Emit(m, "reset", <<>>) EXCEPT
        !.parseChunk = "_findFtyp",
        !.segmentObjects = IF IsSet(m.segmentObjects) THEN Some(<<>>) ELSE undefined,
        !.timescale = undefined, !.sequence = undefined,
        !.allKeyframes = undefined, !.keyframe = undefined,
        !.mime = undefined, !.videoCodec = undefined, !.audioCodec = undefined,
        !.initialization = undefined, !.segment = undefined,
        !.timestamp = undefined, !.duration = undefined,
        !.totalDuration = undefined, !.totalByteLength = undefined,
        !.moof = undefined, !.mdatBuffer = undefined,
        !.moofLength = undefined, !.mdatLength = undefined,
        !.mdatBufferSize = undefined,
        !.ftyp = undefined, !.ftypLength = undefined,
        !.m3u8 = undefined, !.setKeyFrame = undefined]

(***************************************************************************)
(* Codec extractors.  A codec string is kept as its name and the numbers   *)
(* it is printed from.                                                     *)
(***************************************************************************)
RECURSIVE ReversedLow(_, _)
\* bits 0..k of the bit-reversal of the 32-bit number n (n < 2^31, so bit 0
\* of the reversal, which is bit 31 of n, is 0)
ReversedLow(n, k) ==
    IF k < 1 THEN 0
    ELSE ((n \div (2 ^ (31 - k))) % 2) * (2 ^ k) + ReversedLow(n, k - 1)

\* the number whose toString(16) _reverseBitsToHex returns: the final
\* (n >> 16) | (n << 16) is a signed 32-bit value
_reverseBitsToHex(n) ==
    IF n % 2 = 1 THEN ReversedLow(n, 30) - 2147483647 - 1 ELSE ReversedLow(n, 30)

\* each returns [ret |-> the function's result, m |-> the instance after it]
_parseCodecMP4A(m, chunk) ==
    LET index == IndexOf(chunk, _MP4A)
        esdsIndex == IndexOfFrom(chunk, _ESDS, index)
    IN IF index # -1 /\ esdsIndex # -1
          /\ ByteAt(chunk, esdsIndex + 8) = Some(3)
          /\ ByteAt(chunk, esdsIndex + 16) = Some(4)
          /\ ByteAt(chunk, esdsIndex + 34) = Some(5)
       THEN LET b39 == ByteAt(chunk, esdsIndex + 39)
                aot == IF IsSet(b39) THEN Get(b39) \div 8 ELSE 0
            IN [ret |-> TRUE,
                m |-> [m EXCEPT !.audioCodec =
                         Some([name |-> "mp4a", parts |-> <<chunk[esdsIndex + 22], aot>>])]]
       ELSE [ret |-> FALSE, m |-> m]

\* _parseCodecAVCC finding no avcC box in any chunk
_parseCodecAVCC_None(m, chunk) == [ret |-> FALSE, m |-> m]

_parseCodecAVCC(m, chunk) ==
    LET index == IndexOf(chunk, _AVCC)
        name == IF Includes(chunk, _AVC1) THEN "avc1"
                ELSE IF Includes(chunk, _AVC2) THEN "avc2"
                ELSE IF Includes(chunk, _AVC3) THEN "avc3"
                ELSE IF Includes(chunk, _AVC4) THEN "avc4"
                ELSE ""
    IN IF index # -1 /\ name # ""
       THEN [ret |-> TRUE,
             m |-> [m EXCEPT !.videoCodec =
                        Some([name |-> name, parts |-> Slice(chunk, index + 5, index + 8)]),
                             !.setKeyFrame = Some("_setKeyFrameAVCC")]]
       ELSE [ret |-> FALSE, m |-> m]

\* readUInt32BE(index + 6) and chunk[index + 16].toString() throw when they
\* fall outside the chunk
_parseCodecHVCC(m, chunk) ==
    LET index == IndexOf(chunk, _HVCC)
        name == IF Includes(chunk, _HVC1) THEN "hvc1"
                ELSE IF Includes(chunk, _HEV1) THEN "hev1"
                ELSE ""
    IN IF index # -1 /\ name # ""
       THEN IF ~CanRead32(chunk, index + 6) \/ ~IsSet(ByteAt(chunk, index + 16))
            THEN [ret |-> FALSE, m |-> [m EXCEPT !.thrown = TRUE]]
            ELSE LET tmpByte == chunk[index + 6]
                     generalProfileSpace == tmpByte \div 64
                     generalTierFlag == IF HasBit(tmpByte, 32) THEN 1 ELSE 0
                     generalProfileIdc == tmpByte % 32
                     generalProfileCompatibility == _reverseBitsToHex(ReadUInt32BE(chunk, index + 6))
                     generalConstraintIndicator == SelectSeq(Slice(chunk, index + 10, index + 16), LAMBDA b : b # 0)
                     generalLevelIdc == chunk[index + 17]
                 IN [ret |-> TRUE,
                     m |-> [m EXCEPT !.videoCodec =
                              Some([name |-> name,
                                    parts |-> <<generalProfileSpace, generalProfileIdc,
                                                generalProfileCompatibility, generalTierFlag,
                                                generalLevelIdc>> \o generalConstraintIndicator]),
                                     !.setKeyFrame = Some("_setKeyFrameHVCC")]]
       ELSE [ret |-> FALSE, m |-> m]

\* the playlist text, kept as the values printed in it
M3u8(targetDuration, mediaSequence, base, segments) ==
    [targetDuration |-> targetDuration, mediaSequence |-> mediaSequence,
     map |-> base, segments |-> segments]

\* now is the value of Date.now()
_initialize(m, chunk, now) ==
    LET mdhdIndex == IndexOf(chunk, _MDHD)
        mdhdVersion == ByteAt(chunk, mdhdIndex + 4)
        tsOffset == mdhdIndex + (IF mdhdVersion = Some(0) THEN 16 ELSE 24)
        m0 == [m EXCEPT !.initialization = Some(chunk)]
        \* from the playlist on, m3 being the instance with its mime set
        WithMime(m3) ==
            LET m4 == IF TruthyString(m3.hlsPlaylistBase) /\ m3.hlsPlaylistInit = Some(TRUE)
                      THEN [m3 EXCEPT !.m3u8 = Some(M3u8(1, 0, Get(m3.hlsPlaylistBase), <<>>))]
                      ELSE m3
            IN Emit(m4, "initialized",
                    [mime |-> mimeOf(m4), initialization |-> initializationOf(m4),
                     m3u8 |-> m3u8Of(m4)])
        \* from the codec list on, video and audio being the parsers' results
        WithCodecs(video, audio) ==
            LET m2 == audio.m
                codecs == (IF video.ret THEN <<Get(m2.videoCodec)>> ELSE <<>>)
                          \o (IF audio.ret THEN <<Get(m2.audioCodec)>> ELSE <<>>)
                mp4Type == IF audio.ret /\ ~IsSet(m2.videoCodec) THEN "audio"
                           ELSE IF video.ret THEN "video" ELSE "audio"
            IN IF Len(codecs) = 0 THEN Emit(m2, "error", "codecs not found.")
               ELSE WithMime([m2 EXCEPT !.mime = Some([type |-> mp4Type, codecs |-> codecs])])
        WithVideo(video) ==
            IF video.m.thrown THEN video.m
            ELSE WithCodecs(video, _parseCodecMP4A(video.m, chunk))
        \* this._parseCodecAVCC(...) || this._parseCodecHVCC(...)
        WithAvcc(avcc) == IF avcc.ret THEN WithVideo(avcc)
                          ELSE WithVideo(_parseCodecHVCC(avcc.m, chunk))
    IN IF ~CanRead32(chunk, tsOffset) THEN [m0 EXCEPT !.thrown = TRUE]
       ELSE WithAvcc(_parseCodecAVCC(
                [m0 EXCEPT !.timescale = Some(ReadUInt32BE(chunk, tsOffset)),
                           !.timestamp = Some(now),
                           !.sequence = Some(-1),
                           !.allKeyframes = Some(TRUE),
                           !.totalDuration = Some(DZero),
                           !.totalByteLength = Some(Len(chunk)),
                           !.setKeyFrame = Some("noop")], chunk))

(***************************************************************************)
(* Keyframe detectors.                                                     *)
(***************************************************************************)
\* IsKeyNalAVCC taking every slice for a keyframe
IsKeyNalAVCC_AnySlice(byte) == byte % 32 \in {1, 5}

\* (chunk[i] & 0x20) === 32
IsKeyNalHVCC(byte) == HasBit(byte, 32)
\* (chunk[i] & 0x1f) === 5
IsKeyNalAVCC(byte) == byte % 32 = 5

RECURSIVE NalScan(_, _, _, _)
\* the while loop of _setKeyFrameHVCC / _setKeyFrameAVCC: TRUE when it
\* returns from inside the loop.  index < end = length - 5 keeps both reads
\* inside the chunk.
NalScan(chunk, index, end, hvcc) ==
    IF index < end THEN
        LET nalLength == ReadUInt32BE(chunk, index)
            byte == chunk[index + 5]
        IN IF (IF hvcc THEN IsKeyNalHVCC(byte) ELSE IsKeyNalAVCC(byte)) THEN TRUE
           ELSE NalScan(chunk, index + 4 + nalLength, end, hvcc)
    ELSE FALSE

\* SetKeyFrameWith with allKeyframes following the last segment
SetKeyFrameWith_Forgetful(m, chunk, hvcc) ==
    IF IsSet(m.moofLength) /\ NalScan(chunk, Get(m.moofLength) + 8, Len(chunk) - 5, hvcc)
    THEN [m EXCEPT !.allKeyframes = Some(TRUE), !.keyframe = Some(TRUE)]
    ELSE [m EXCEPT !.allKeyframes = Some(FALSE), !.keyframe = Some(FALSE)]

\* with _moofLength undefined, index is NaN and the loop body never runs
SetKeyFrameWith(m, chunk, hvcc) ==
    IF IsSet(m.moofLength) /\ NalScan(chunk, Get(m.moofLength) + 8, Len(chunk) - 5, hvcc)
    THEN [m EXCEPT !.keyframe = Some(TRUE)]
    ELSE [m EXCEPT !.allKeyframes = Some(FALSE), !.keyframe = Some(FALSE)]

_setKeyFrameHVCC(m, chunk) == SetKeyFrameWith(m, chunk, TRUE)
_setKeyFrameAVCC(m, chunk) == SetKeyFrameWith(m, chunk, FALSE)

(***************************************************************************)
(* Duration and timestamp.                                                 *)
(***************************************************************************)
RECURSIVE SampleDurationSum(_, _, _, _)
\* the for loop over the trun samples: Some(sum), or undefined when a read
\* falls outside the chunk (RangeError)
SampleDurationSum(chunk, trunOffset, increment, sampleCount) ==
    IF sampleCount = 0 THEN Some(0)
    ELSE IF ~CanRead32(chunk, trunOffset) THEN undefined
    ELSE LET rest == SampleDurationSum(chunk, trunOffset + increment, increment, sampleCount - 1)
         IN IF IsSet(rest) THEN Some(ReadUInt32BE(chunk, trunOffset) + Get(rest)) ELSE undefined

\* the inner function of _setDurTime: Some(ticks) for ticks / timescale
\* seconds, or undefined when it throws
TrunOrTfhdTicks(chunk) ==
    LET Tfhd(tfhdIndex, sampleCount) ==
            LET tfhdFlagsOffset == tfhdIndex + 4
            IN IF ~CanRead32(chunk, tfhdFlagsOffset) THEN undefined
               ELSE
               LET tfhdFlags == ReadUInt32BE(chunk, tfhdFlagsOffset)
                   tfhdOffset == tfhdFlagsOffset + 8
                                 + (IF HasBit(tfhdFlags, 1) THEN 8 ELSE 0)
                                 + (IF HasBit(tfhdFlags, 2) THEN 4 ELSE 0)
               IN IF HasBit(tfhdFlags, 8) THEN
                     IF ~CanRead32(chunk, tfhdOffset) THEN undefined
                     ELSE Some(ReadUInt32BE(chunk, tfhdOffset) * sampleCount)
                  ELSE Some(0)
        Trun(trunIndex) ==
            LET flagsOffset == trunIndex + 4
                countOffset == trunIndex + 8
            IN IF ~CanRead32(chunk, flagsOffset) \/ ~CanRead32(chunk, countOffset) THEN undefined
               ELSE
               LET trunFlags == ReadUInt32BE(chunk, flagsOffset)
                   sampleCount == ReadUInt32BE(chunk, countOffset)
               IN IF HasBit(trunFlags, 256) THEN
                     LET trunOffset == countOffset + 4
                                      + (IF HasBit(trunFlags, 1) THEN 4 ELSE 0)
                                      + (IF HasBit(trunFlags, 4) THEN 4 ELSE 0)
                         increment == 4 + (IF HasBit(trunFlags, 512) THEN 4 ELSE 0)
                                        + (IF HasBit(trunFlags, 1024) THEN 4 ELSE 0)
                                        + (IF HasBit(trunFlags, 2048) THEN 4 ELSE 0)
                     IN SampleDurationSum(chunk, trunOffset, increment, sampleCount)
                  ELSE Tfhd(IndexOf(chunk, _TFHD), sampleCount)
    IN Trun(IndexOf(chunk, _TRUN))

\* ticks / timescale seconds, and ms / 1000 seconds, in units of 1/(1000 * timescale) s
TicksToUnits(m, ticks) == ticks * 1000
MillisToUnits(m, ms) == ms * Get(m.timescale)

_setDurTime(m, chunk, now) ==
    LET Set(ticks) ==
            IF ~IsSet(ticks) THEN [m EXCEPT !.thrown = TRUE]
            ELSE LET duration == TicksToUnits(m, Get(ticks))
                     currentTime == now
                     elapsed == MillisToUnits(m, currentTime - Get(m.timestamp))
                 IN [m EXCEPT !.timestamp = Some(currentTime),
                              !.duration = Some(IF duration # 0 THEN duration ELSE elapsed)]
    IN Set(TrunOrTfhdTicks(chunk))

(***************************************************************************)
(* Retention ring and playlist.                                            *)
(***************************************************************************)
\* the unit of durations: 1 second = SecondUnits(m)
SecondUnits(m) == 1000 * Get(m.timescale)
\* the JS number that a duration of so many units is
ToDouble(m, units) == DDiv(units, SecondUnits(m))

\* Overfull with >= for >: the ring is cut one entry short
Overfull_OneShort(m) == Len(Get(m.segmentObjects)) >= Get(m.segmentCount)

\* this._segmentObjects.length > this._segmentCount
Overfull(m) == Len(Get(m.segmentObjects)) > Get(m.segmentCount)

\* one pass of the while loop: shift the oldest entry out and take its
\* duration and byte length off the totals
Shifted(m) ==
    LET ring == Get(m.segmentObjects) IN
    [m EXCEPT !.segmentObjects = Some(Tail(ring)),
              !.totalDuration = Some(DSub(Get(@), ToDouble(m, ring[1].duration))),
              !.totalByteLength = Some(Get(@) - Len(ring[1].segment))]

\* Evict shifting nothing out
Evict_None(m) == m

\* the while loop that shifts entries until the ring fits
RECURSIVE Evict(_)
Evict(m) == IF Overfull(m) THEN Evict(Shifted(m)) ELSE m

\* RoundSeconds as Math.floor
RoundSeconds_Floor(m, units) == units \div SecondUnits(m)
\* Math.round(x) for x = units / SecondUnits >= 0: the nearest integer, halves up
RoundSeconds(m, units) == (2 * units + SecondUnits(m)) \div (2 * SecondUnits(m))
\* duration.toFixed(6), as the number of microseconds it prints
ToFixed6(m, units) == (2 * units * 1000 + Get(m.timescale)) \div (2 * Get(m.timescale))

RECURSIVE MaxDuration(_, _, _)
\* targetDuration after the for loop from entry i (1-based), in units
MaxDuration(ring, i, acc) ==
    IF i > Len(ring) THEN acc ELSE MaxDuration(ring, i + 1, Max2(acc, ring[i].duration))

\* WindowStart listing the whole ring
WindowStart_WholeRing(ring, size) == 0

\* the 0-based index of the first ring entry the playlist lists
WindowStart(ring, size) == IF Len(ring) > size THEN Len(ring) - size ELSE 0

Playlist(m) ==
    LET ring == Get(m.segmentObjects)
        size == Get(m.hlsPlaylistSize)
        i == WindowStart(ring, size)
        mediaSequence == ring[i + 1].sequence
        targetDuration == MaxDuration(ring, i + 1, SecondUnits(m))
        base == Get(m.hlsPlaylistBase)
        segments == [k \in 1..(Len(ring) - i) |->
                        [extinf |-> ToFixed6(m, ring[i + k].duration),
                         uri |-> <<base, ring[i + k].sequence>>]]
        rounded == RoundSeconds(m, targetDuration)
    IN M3u8(IF rounded # 0 THEN rounded ELSE 1, mediaSequence, base, segments)

\* NextSequence without the increment
NextSequence_Stuck(sequence) == sequence

\* NextSequence leaving one number out
NextSequence_Skip(sequence) == sequence + 2

\* this._sequence++
NextSequence(sequence) == sequence + 1

\* what a listener called by emit('segment', ...) reads from the instance
Heard(m) ==
    [segmentObjects |-> segmentObjectsOf(m), totalDuration |-> totalDurationOf(m),
     totalByteLength |-> totalByteLengthOf(m), m3u8 |-> m3u8Of(m),
     latest |-> getSegmentObject(m, Some(sequenceOf(m)))]

\* Each local operator is the rest of the function from the named value on.
_setSegment(m, chunk, now) ==
    LET Emitted(m4) == Emit([m4 EXCEPT !.heard = Append(@, Heard(m4))],
                            "segment", segmentObjectOf(m4))
        Listed(fitted) ==
            IF TruthyString(fitted.hlsPlaylistBase)
            THEN [fitted EXCEPT !.m3u8 = Some(Playlist(fitted))]
            ELSE fitted
        Stored(m3) ==
            IF IsSet(m3.segmentObjects) THEN
                Listed(Evict([m3 EXCEPT
                    !.segmentObjects = Some(Append(Get(@),
                        [segment |-> chunk, sequence |-> Get(m3.sequence),
                         duration |-> Get(m3.duration), timestamp |-> Get(m3.timestamp),
                         keyframe |-> m3.keyframe])),
                    !.totalDuration = Some(DAdd(Get(@), ToDouble(m3, Get(m3.duration)))),
                    !.totalByteLength = Some(Get(@) + Len(chunk))]))
            ELSE [m3 EXCEPT !.totalDuration = Some(ToDouble(m3, Get(m3.duration))),
                            !.totalByteLength = Some(Len(Get(m3.initialization)) + Len(chunk))]
        Timed(m2) ==
            IF m2.thrown THEN m2
            ELSE Emitted(Stored([m2 EXCEPT !.sequence = Some(NextSequence(Get(@)))]))
        Marked(m1) == Timed(_setDurTime(m1, chunk, now))
        Assigned(m0) ==
            IF ~IsSet(m0.setKeyFrame) THEN [m0 EXCEPT !.thrown = TRUE]
            ELSE CASE Get(m0.setKeyFrame) = "_setKeyFrameAVCC" -> Marked(_setKeyFrameAVCC(m0, chunk))
                   [] Get(m0.setKeyFrame) = "_setKeyFrameHVCC" -> Marked(_setKeyFrameHVCC(m0, chunk))
                   [] OTHER -> Marked(m0)
    IN Assigned([m EXCEPT !.segment = Some(chunk)])

(***************************************************************************)
(* The parse stages.  Every call  this._parseChunk(rest)  in the source is *)
(* the last statement its caller executes, so a stage returns              *)
(* [m |-> the instance, next |-> Some(rest) or undefined] and _parseChunk  *)
(* runs the stages until none asks for more.                               *)
(***************************************************************************)
Done(m) == [m |-> m, next |-> undefined]
Continue(m, rest) == [m |-> m, next |-> Some(rest)]

\* Fail without the error event
Fail_Silent(m, message) == Done(m)

Fail(m, message) == Done(Emit(m, "error", message))

_findFtyp(m, chunk) ==
    LET chunkLength == Len(chunk) IN
    IF chunkLength < 8 \/ IndexOf(chunk, _FTYP) # 4 THEN Fail(m, "ftyp not found.")
    ELSE
    LET ftypLength == ReadUInt32BE(chunk, 0)
        m1 == [m EXCEPT !.ftypLength = Some(ftypLength)]
    IN IF ftypLength < chunkLength THEN
          Continue([m1 EXCEPT !.ftyp = Some(Slice(chunk, 0, ftypLength)),
                              !.parseChunk = "_findMoov"],
                   SliceFrom(chunk, ftypLength))
       ELSE IF ftypLength = chunkLength THEN
          Done([m1 EXCEPT !.ftyp = Some(chunk), !.parseChunk = "_findMoov"])
       ELSE Fail(m1, "ftypLength > chunkLength")

_findMoov(m, chunk, now) ==
    LET chunkLength == Len(chunk) IN
    IF chunkLength < 8 \/ IndexOf(chunk, _MOOV) # 4 THEN Fail(m, "moov not found.")
    ELSE
    LET moovLength == ReadUInt32BE(chunk, 0) IN
    IF moovLength <= chunkLength THEN
        IF ~IsSet(m.ftyp) THEN Done([m EXCEPT !.thrown = TRUE])
        ELSE
        LET Initialized(m1) ==
                LET m2 == [m1 EXCEPT !.ftyp = undefined, !.ftypLength = undefined,
                                     !.parseChunk = "_findMoof"]
                IN IF m1.thrown THEN Done(m1)
                   ELSE IF moovLength < chunkLength THEN Continue(m2, SliceFrom(chunk, moovLength))
                   ELSE Done(m2)
        IN Initialized(_initialize(m, ConcatTo(Get(m.ftyp) \o chunk,
                                               Get(m.ftypLength) + moovLength), now))
    ELSE Fail(m, "moovLength > chunkLength")

\* SearchAllowed with <= for <: one more attempt
SearchAllowed_OneMore(moofSearches) == IsSet(moofSearches) /\ Get(moofSearches) <= _MOOF_SEARCH_LIMIT
\* ResyncFrom cutting at the tag instead of the length field before it
ResyncFrom_AtTag(index) == index

\* SearchAllowed without the limit
SearchAllowed_Unbounded(moofSearches) == IsSet(moofSearches)

\* this._moofSearches < _MOOF_SEARCH_LIMIT (false for undefined)
SearchAllowed(moofSearches) == IsSet(moofSearches) /\ Get(moofSearches) < _MOOF_SEARCH_LIMIT
\* index > 3 && chunk.length > index + 3
MoofFound(index, chunkLength) == index > 3 /\ chunkLength > index + 3
\* where the chunk is cut to start at the length field of the moof found
ResyncFrom(index) == index - 4

_moofSearch(m, chunk) ==
    IF SearchAllowed(m.moofSearches) THEN
        LET m1 == [m EXCEPT !.moofSearches = Some(Get(@) + 1)]
            index == IndexOf(chunk, _MOOF)
        IN IF MoofFound(index, Len(chunk)) THEN
              Continue([m1 EXCEPT !.moofSearches = undefined, !.parseChunk = "_findMoof",
                                  !.resyncs = @ + 1],
                       SliceFrom(chunk, ResyncFrom(index)))
           ELSE Done(m1)
    ELSE Fail(m, "moof search failed after attempts.")

\* EndOfStream never seeing the mfra tag
EndOfStream_Never(chunk) == FALSE

\* chunk.indexOf(_MFRA) !== -1
EndOfStream(chunk) == IndexOf(chunk, _MFRA) # -1

_findMoof(m, chunk) ==
    LET chunkLength == Len(chunk) IN
    IF IsSet(m.moofBuffer) THEN
        LET m1 == [m EXCEPT !.moofBuffer = Some(Get(@) \o chunk),
                            !.moofBufferSize = Some(Get(@) + chunkLength)]
            size == Get(m1.moofBufferSize)
        IN IF IsSet(m1.moofLength) /\ Get(m1.moofLength) = size THEN
              Done([m1 EXCEPT !.moof = Some(ConcatTo(Get(m1.moofBuffer), Get(m1.moofLength))),
                              !.moofBuffer = undefined, !.moofBufferSize = undefined,
                              !.parseChunk = "_findMdat"])
           ELSE IF IsSet(m1.moofLength) /\ Get(m1.moofLength) < size THEN
              LET sliceIndex == chunkLength - (size - Get(m1.moofLength)) IN
              Continue([m1 EXCEPT !.moof = Some(ConcatTo(Get(m1.moofBuffer), Get(m1.moofLength))),
                                  !.moofBuffer = undefined, !.moofBufferSize = undefined,
                                  !.parseChunk = "_findMdat"],
                       SliceFrom(chunk, sliceIndex))
           ELSE Done(m1)
    ELSE
        IF chunkLength < 8 \/ IndexOf(chunk, _MOOF) # 4 THEN
            IF EndOfStream(chunk) THEN Done(m)
            ELSE Continue([m EXCEPT !.moofSearches = Some(0), !.parseChunk = "_moofSearch"], chunk)
        ELSE
        LET moofLength == ReadUInt32BE(chunk, 0)
            m1 == [m EXCEPT !.moofLength = Some(moofLength)]
        IN IF moofLength = 0 THEN Fail(m1, "moof length of 0.")
           ELSE IF moofLength < chunkLength THEN
              Continue([m1 EXCEPT !.moof = Some(Slice(chunk, 0, moofLength)),
                                  !.parseChunk = "_findMdat"],
                       SliceFrom(chunk, moofLength))
           ELSE IF moofLength = chunkLength THEN
              Done([m1 EXCEPT !.moof = Some(chunk), !.parseChunk = "_findMdat"])
           ELSE Done([m1 EXCEPT !.moofBuffer = Some(chunk), !.moofBufferSize = Some(chunkLength)])

\* the assignments that follow _setSegment in every branch of _findMdat
AfterSegment(m) ==
    [m EXCEPT !.moof = undefined, !.mdatBuffer = undefined, !.mdatBufferSize = undefined,
              !.mdatLength = undefined, !.moofLength = undefined, !.parseChunk = "_findMoof"]

\* Buffer.concat([this._moof, ...], this._moofLength + length): a TypeError
\* when _moof is undefined; undefined + length is NaN, which concat rejects
CanConcatSegment(m) == IsSet(m.moof) /\ IsSet(m.moofLength)

_findMdat(m, chunk, now) ==
    LET chunkLength == Len(chunk) IN
    IF IsSet(m.mdatBuffer) THEN
        LET m1 == [m EXCEPT !.mdatBuffer = Some(Get(@) \o chunk),
                            !.mdatBufferSize = Some(Get(@) + chunkLength)]
            size == Get(m1.mdatBufferSize)
        IN IF IsSet(m1.mdatLength) /\ Get(m1.mdatLength) <= size THEN
              IF ~CanConcatSegment(m1) THEN Done([m1 EXCEPT !.thrown = TRUE])
              ELSE
              LET sliceIndex == chunkLength - (size - Get(m1.mdatLength))
                  Set(m2) ==
                      IF m2.thrown THEN Done(m2)
                      ELSE IF Get(m1.mdatLength) = size THEN Done(AfterSegment(m2))
                      ELSE Continue(AfterSegment(m2), SliceFrom(chunk, sliceIndex))
              IN Set(_setSegment(m1, ConcatTo(Get(m1.moof) \o Get(m1.mdatBuffer),
                                              Get(m1.moofLength) + Get(m1.mdatLength)), now))
           ELSE Done(m1)
    ELSE
        IF chunkLength < 8 \/ IndexOf(chunk, _MDAT) # 4 THEN Fail(m, "mdat not found.")
        ELSE
        LET mdatLength == ReadUInt32BE(chunk, 0)
            m1 == [m EXCEPT !.mdatLength = Some(mdatLength)]
        IN IF mdatLength > chunkLength THEN
              Done([m1 EXCEPT !.mdatBuffer = Some(chunk), !.mdatBufferSize = Some(chunkLength)])
           ELSE IF ~CanConcatSegment(m1) THEN Done([m1 EXCEPT !.thrown = TRUE])
           ELSE
           LET Set(m2) ==
                   IF m2.thrown THEN Done(m2)
                   ELSE IF mdatLength = chunkLength THEN Done(AfterSegment(m2))
                   ELSE Continue(AfterSegment(m2), SliceFrom(chunk, mdatLength))
           IN Set(_setSegment(m1, ConcatTo(Get(m1.moof) \o chunk,
                                           Get(m1.moofLength) + mdatLength), now))

\* one call of the function this._parseChunk currently names
Stage(m, chunk, now) ==
    CASE m.parseChunk = "_findFtyp" -> _findFtyp(m, chunk)
      [] m.parseChunk = "_findMoov" -> _findMoov(m, chunk, now)
      [] m.parseChunk = "_findMoof" -> _findMoof(m, chunk)
      [] m.parseChunk = "_moofSearch" -> _moofSearch(m, chunk)
      [] m.parseChunk = "_findMdat" -> _findMdat(m, chunk, now)

RECURSIVE _parseChunk(_, _, _)
_parseChunk(m, chunk, now) ==
    LET Run(r) == IF IsSet(r.next) THEN _parseChunk(r.m, Get(r.next), now) ELSE r.m
    IN Run(Stage(m, chunk, now))

\* _transform(chunk, encoding, callback): thrown is cleared on entry, and is
\* TRUE on exit when the exception left before callback() was called
_transform(m, chunk, now) == _parseChunk([m EXCEPT !.thrown = FALSE], chunk, now)

\* _flush(callback)
_flush(m) == resetCache(m)

(***************************************************************************)
(* The producer: the byte streams the encoder writes.  A stream is the     *)
(* bytes and the list of its boxes ([kind, len]), which the cut rules of   *)
(* the specifications read.                                                *)
(***************************************************************************)
U32(n) == <<0, 0, n \div 256, n % 256>>
Box(tag, payload) == U32(8 + Len(payload)) \o tag \o payload

FtypBox == Box(_FTYP, <<>>)
\* mdhd version 0 with the timescale at offset 16 from the tag
Mdhd(timescale) == _MDHD \o Zeros(12) \o U32(timescale)
\* avcC with profile 0x64, compatibility 0x00, level 0x1F, and the avc1 tag
AvcConfig == _AVCC \o <<1, 100, 0, 31>> \o _AVC1
MoovBox(timescale, config) == Box(_MOOV, Mdhd(timescale) \o config)

RECURSIVE Durations(_)
Durations(ds) == IF ds = <<>> THEN <<>> ELSE U32(Head(ds)) \o Durations(Tail(ds))
\* a moof whose trun has flag 0x000100 and one duration per sample
MoofBox(ds) == Box(_MOOF, _TRUN \o U32(256) \o U32(Len(ds)) \o Durations(ds))
\* an mdat with one NAL unit of 2 bytes whose first byte is nal
MdatBox(nal) == Box(_MDAT, U32(2) \o <<nal, 0>>)

\* first NAL bytes: nal_ref_idc 3 with type 5 (IDR, 0x65), nal_ref_idc 2 with type 1 (0x41)
IdrNal == 96 + 5
NonIdrNal == 64 + 1

RECURSIVE NalUnits(_)
\* length-prefixed NAL units of 2 bytes each, nals being their first bytes
NalUnits(nals) ==
    IF nals = <<>> THEN <<>> ELSE U32(2) \o <<Head(nals), 0>> \o NalUnits(Tail(nals))
\* an mdat with one NAL unit for every first byte of nals
MdatOf(nals) == Box(_MDAT, NalUnits(nals))

\* the first byte of an HEVC NAL unit of the given type (layer 0)
HevcNal(type) == 2 * type

\* a moof whose trun has no per-sample durations and whose tfhd has flag
\* 0x000008 and the default sample duration
TfhdMoofBox(defaultDuration, sampleCount) ==
    Box(_MOOF, _TFHD \o U32(8) \o U32(1) \o U32(defaultDuration)
               \o _TRUN \o U32(0) \o U32(sampleCount))
\* a moof with a tfhd and no trun
NoTrunMoofBox == Box(_MOOF, _TFHD \o U32(0) \o U32(1))

\* mp4a and esds with tags 3, 4, 5 where _parseCodecMP4A expects them,
\* object type 0x40 and audio object type 2
Mp4aConfig ==
    _MP4A \o _ESDS \o
    [i \in 1..36 |-> CASE i + 3 = 8 -> 3
                       [] i + 3 = 16 -> 4
                       [] i + 3 = 21 -> 64
                       [] i + 3 = 34 -> 5
                       [] i + 3 = 39 -> 16
                       [] OTHER -> 0]
\* hvcC with profile space 0, tier L, profile 1, compatibility 0x60000000,
\* level 93, and the hvc1 tag
HvcConfig == _HVCC \o <<1, 1, 96, 0, 0, 0, 0, 0, 0, 0, 0, 0, 93>> \o _HVC1
\* an ftyp with a major brand
BrandedFtypBox == Box(_FTYP, <<105, 115, 111, 109>>)
MfraBox == Box(_MFRA, Zeros(4))

BoxOf(kind, bytes) == [kind |-> kind, bytes |-> bytes]

RECURSIVE BytesOf(_)
BytesOf(boxes) == IF boxes = <<>> THEN <<>> ELSE Head(boxes).bytes \o BytesOf(Tail(boxes))

\* seg is <<duration ticks, first NAL byte>>
SegmentBoxes(seg) == <<BoxOf("moof", MoofBox(<<seg[1]>>)), BoxOf("mdat", MdatBox(seg[2]))>>
\* a segment of the given moof and NAL units
SegmentOf(moof, nals) == <<BoxOf("moof", moof), BoxOf("mdat", MdatOf(nals))>>

RECURSIVE SegmentsBoxes(_)
SegmentsBoxes(segs) ==
    IF segs = <<>> THEN <<>> ELSE SegmentBoxes(Head(segs)) \o SegmentsBoxes(Tail(segs))

InitBoxes(timescale, config) ==
    <<BoxOf("ftyp", FtypBox), BoxOf("moov", MoovBox(timescale, config))>>

ValidStream(timescale, config, segs) == InitBoxes(timescale, config) \o SegmentsBoxes(segs)

\* bytes that hold no tag: every tag byte is above 96
Garbage(n) == [i \in 1..n |-> i % 97]

GarbageLen == 10
LongGarbageLen == 1000

\* the streams of the model
Streams ==
    << ValidStream(10, AvcConfig, <<<<15, IdrNal>>, <<1, NonIdrNal>>, <<25, IdrNal>>>>),
       InitBoxes(10, AvcConfig) \o SegmentBoxes(<<15, IdrNal>>)
          \o <<BoxOf("garbage", Garbage(GarbageLen))>> \o SegmentBoxes(<<1, NonIdrNal>>),
       <<BoxOf("garbage", Garbage(LongGarbageLen))>>,
       <<BoxOf("ftyp", FtypBox), BoxOf("moov without codec", MoovBox(10, <<>>))>>
          \o SegmentBoxes(<<15, IdrNal>>),
       \* audio only
       ValidStream(10, Mp4aConfig, <<<<15, NonIdrNal>>, <<25, NonIdrNal>>>>),
       \* HEVC: a slice of type 1 and an IDR of type 19; a slice and a VPS
       \* (type 32); a NAL unit of type 22
       InitBoxes(10, HvcConfig)
          \o SegmentOf(MoofBox(<<15>>), <<HevcNal(1), HevcNal(19)>>)
          \o SegmentOf(MoofBox(<<1>>), <<HevcNal(1), HevcNal(32)>>)
          \o SegmentOf(MoofBox(<<25>>), <<HevcNal(22)>>),
       \* AVC: a branded ftyp; a slice followed by an IDR; a duration from
       \* tfhd; a duration of 0; the mfra that ends the file
       <<BoxOf("ftyp", BrandedFtypBox), BoxOf("moov", MoovBox(10, AvcConfig))>>
          \o SegmentOf(MoofBox(<<15>>), <<NonIdrNal, IdrNal>>)
          \o SegmentOf(TfhdMoofBox(7, 3), <<NonIdrNal>>)
          \o SegmentOf(MoofBox(<<0>>), <<IdrNal>>)
          \o <<BoxOf("mfra", MfraBox)>>,
       \* AVC: a moof that holds no trun
       InitBoxes(10, AvcConfig) \o SegmentOf(NoTrunMoofBox, <<IdrNal>>),
       \* garbage and then a segment
       <<BoxOf("garbage", Garbage(LongGarbageLen))>> \o SegmentBoxes(<<15, IdrNal>>) >>

StreamBytes == [k \in 1..Len(Streams) |-> BytesOf(Streams[k])]

RECURSIVE BoxStart(_, _)
\* the offset of the k-th box of a stream
BoxStart(bs, k) == IF k = 1 THEN 0 ELSE BoxStart(bs, k - 1) + Len(bs[k - 1].bytes)

\* for every offset of a stream strictly inside a box: the kind of the box and
\* the distance from its start; kind "" at a box boundary
InBox ==
    [k \in 1..Len(Streams) |->
        [e \in 0..Len(StreamBytes[k]) |->
            LET bs == Streams[k]
                inside == {b \in 1..Len(bs) :
                              BoxStart(bs, b) < e /\ e < BoxStart(bs, b) + Len(bs[b].bytes)}
            IN IF inside = {} THEN [kind |-> "", off |-> 0]
               ELSE LET b == CHOOSE b \in inside : TRUE
                    IN [kind |-> bs[b].kind, off |-> e - BoxStart(bs, b)]]]

\* a stream ftyp, moov, (moof, mdat)+ with nothing else in it
IsValidStream(k) ==
    /\ Len(Streams[k]) >= 4
    /\ \A b \in 1..Len(Streams[k]) :
          Streams[k][b].kind = (IF b = 1 THEN "ftyp" ELSE IF b = 2 THEN "moov"
                                ELSE IF b % 2 = 1 THEN "moof" ELSE "mdat")

(***************************************************************************)
(* The state machine.                                                      *)
(*   mp4frag : the Mp4Frag instance                                        *)
(*   fresh   : an instance constructed with the same options at the last   *)
(*             resetCache (at construction before any), written the same   *)
(*             chunks since                                                *)
(*   options : the argument of the constructor                             *)
(*   stream  : the stream the producer is writing (an index of Streams)    *)
(*   input   : the bytes of it not yet written                             *)
(*   clock   : Date.now()                                                  *)
(*   resets  : the number of resetCache calls so far                       *)
(*   cuts    : the number of chunk boundaries so far that fell strictly    *)
(*             inside a box                                                *)
(***************************************************************************)
VARIABLES mp4frag, fresh, options, stream, input, clock, resets, cuts
vars == <<mp4frag, fresh, options, stream, input, clock, resets, cuts>>

MaxResets == 1
MaxCuts == 1
CutDepth == 8
\* the values Date.now() takes
StartTime == 2 * 500

Opts(base, init, size, extra, count) ==
    Some([hlsPlaylistBase |-> base, hlsPlaylistInit |-> init, hlsPlaylistSize |-> size,
          hlsPlaylistExtra |-> extra, segmentCount |-> count])

OptionSet ==
    { undefined,
      Opts(NoString, NoBoolean, NoNumber, NoNumber, JsNumber(2)),
      Opts(JsString("cam"), NoBoolean, JsNumber(2), JsNumber(1), NoNumber),
      Opts(JsString("cam"), JsBoolean(FALSE), JsNumber(2), JsNumber(1), NoNumber) }

\* the streams a producer writes from the start
MainStreams == {1, 2}

\* the streams whose moov box names no codec
FaultyStreams == {4}

\* the streams of nothing but garbage
GarbageStreams == {3}

\* the streams of garbage that a segment follows
RecoveryStreams == {9}

\* the streams of the other formats: audio only, HEVC, AVC with tfhd
\* durations and an mfra, AVC without trun
FormatStreams == {5, 6, 7, 8}
AudioStream == 5
HevcStream == 6
AvcStream == 7
NoTrunStream == 8

\* the offset of the first unwritten byte
Position == Len(StreamBytes[stream]) - Len(input)

\* the chunk boundary at offset end is not a box boundary
SplitsBox(end) == InBox[stream][end].kind # ""

\* a chunk may end at offset end: at any box boundary, and at most MaxCuts
\* times inside a box (or inside garbage), there within CutDepth bytes of its
\* start or one byte before its end
FreeCut(end) ==
    SplitsBox(end) =>
        /\ cuts < MaxCuts
        /\ \/ InBox[stream][end].off <= CutDepth
           \/ InBox[stream][end + 1].kind = ""

\* a chunk may end at offset end: never inside ftyp or moov, and inside a moof
\* or an mdat only 8 bytes or more from its start (there, within CutDepth
\* bytes of its start or one byte before its end); anywhere in garbage
AlignedCut(end) ==
    LET at == InBox[stream][end] IN
    \/ at.kind \in {"", "garbage"}
    \/ /\ at.kind \in {"moof", "mdat"} /\ at.off >= 8
       /\ (at.off <= CutDepth \/ InBox[stream][end + 1].kind = "")

Init ==
    /\ options \in OptionSet
    /\ mp4frag = constructor(options)
    /\ fresh = mp4frag
    /\ stream \in MainStreams
    /\ input = StreamBytes[stream]
    /\ clock = StartTime
    /\ resets = 0
    /\ cuts = 0

\* stream.write(chunk): the next n bytes of the producer's output
WriteChunk(n) ==
    /\ mp4frag' = _transform(mp4frag, SubSeq(input, 1, n), clock)
    /\ fresh' = IF fresh = mp4frag THEN mp4frag'
                ELSE _transform(fresh, SubSeq(input, 1, n), clock)
    /\ input' = SubSeq(input, n + 1, Len(input))
    /\ cuts' = IF SplitsBox(Position + n) THEN cuts + 1 ELSE cuts
    /\ UNCHANGED <<options, stream, clock, resets>>

Write == \E n \in 1..Len(input) : FreeCut(Position + n) /\ WriteChunk(n)

WriteAligned == \E n \in 1..Len(input) : AlignedCut(Position + n) /\ WriteChunk(n)

\* resetCache(), after which the producer starts its stream again; the
\* ghost fields keep what happened from this reset on
ResetCache ==
    /\ resets < MaxResets
    /\ resets' = resets + 1
    /\ mp4frag' = [resetCache(mp4frag) EXCEPT !.events = <<[name |-> "reset", payload |-> <<>>]>>,
                                             !.resyncs = 0, !.heard = <<>>]
    /\ fresh' = constructor(options)
    /\ input' = StreamBytes[stream]
    /\ UNCHANGED <<options, stream, clock, cuts>>

Next == Write \/ ResetCache

Spec == Init /\ [][Next]_vars

SpecAligned == Init /\ [][WriteAligned]_vars

\* the same instance and calls, the producer writing a faulty stream
InitFaulty ==
    /\ options \in OptionSet
    /\ mp4frag = constructor(options)
    /\ fresh = mp4frag
    /\ stream \in FaultyStreams
    /\ input = StreamBytes[stream]
    /\ clock = StartTime
    /\ resets = 0
    /\ cuts = 0

SpecFaulty == InitFaulty /\ [][Next]_vars

\* the same instance, the producer writing a stream of another format to
\* its end, and time passing between the calls
TickMillis == 500

\* Date.now() takes two values: StartTime, and TickMillis later
Tick ==
    /\ clock = StartTime
    /\ clock' = clock + TickMillis
    /\ UNCHANGED <<mp4frag, fresh, options, stream, input, resets, cuts>>

FormatOptions == { undefined, Opts(JsString("cam"), NoBoolean, JsNumber(2), JsNumber(1), NoNumber) }

InitFormats ==
    /\ options \in FormatOptions
    /\ mp4frag = constructor(options)
    /\ fresh = mp4frag
    /\ stream \in FormatStreams
    /\ input = StreamBytes[stream]
    /\ clock = StartTime
    /\ resets = 0
    /\ cuts = 0

NextFormats == Write \/ Tick

SpecFormats == InitFormats /\ [][NextFormats]_vars

\* The parser is seeking a moof (it has been written an initialization, or
\* an initialization and a segment, in one chunk) and the producer writes
\* nothing but garbage from then on, in chunks of SmallChunk bytes, of one
\* byte more, or all that is left at once.
SmallChunk == 16
SeekingMoof ==
    { BytesOf(InitBoxes(10, AvcConfig)),
      BytesOf(InitBoxes(10, AvcConfig) \o SegmentBoxes(<<15, IdrNal>>)) }

InitGarbage ==
    /\ options \in OptionSet
    /\ \E written \in SeekingMoof : mp4frag = _transform(constructor(options), written, StartTime)
    /\ fresh = mp4frag
    /\ stream \in GarbageStreams
    /\ input = StreamBytes[stream]
    /\ clock = StartTime
    /\ resets = 0
    /\ cuts = 0

WriteGarbage ==
    \E n \in {SmallChunk, SmallChunk + 1, Len(input)} :
        n >= 1 /\ n <= Len(input) /\ WriteChunk(n)

SpecGarbage == InitGarbage /\ [][WriteGarbage]_vars

\* The same, the garbage being followed by a segment.
InitRecovery ==
    /\ options \in OptionSet
    /\ \E written \in SeekingMoof : mp4frag = _transform(constructor(options), written, StartTime)
    /\ fresh = mp4frag
    /\ stream \in RecoveryStreams
    /\ input = StreamBytes[stream]
    /\ clock = StartTime
    /\ resets = 0
    /\ cuts = 0

SpecRecovery == InitRecovery /\ [][WriteGarbage]_vars

\* The caller constructs an instance with numeric options of every kind:
\* absent, not a number, below, at and above each end of the range.
SuppliedOptions ==
    LET Tried(min, max) ==
            {NoNumber, JsNaN} \cup {JsNumber(v) : v \in {min - 1, min, min + 1, max, max + 1}}
    IN { Opts(base, NoBoolean, size, extra, count) :
            base \in {NoString, JsString("cam")},
            size \in Tried(_HLS_SIZE_MIN, _HLS_SIZE_MAX),
            extra \in Tried(_HLS_EXTRA_MIN, _HLS_EXTRA_MAX),
            count \in Tried(_SEG_SIZE_MIN, _SEG_SIZE_MAX) }

InitConstruct ==
    /\ options = undefined
    /\ mp4frag = constructor(options)
    /\ fresh = mp4frag
    /\ stream \in MainStreams
    /\ input = StreamBytes[stream]
    /\ clock = StartTime
    /\ resets = 0
    /\ cuts = 0

\* mp4frag = new Mp4Frag(o)
Construct ==
    /\ ~IsSet(options)
    /\ \E o \in SuppliedOptions :
          /\ options' = o
          /\ mp4frag' = constructor(o)
    /\ fresh' = mp4frag'
    /\ UNCHANGED <<stream, input, clock, resets, cuts>>

SpecConstruct == InitConstruct /\ [][Construct]_vars

(***************************************************************************)
(* What a listener sees: the payloads of the events of one name, in the    *)
(* order they were emitted (since the last reset).                         *)
(***************************************************************************)
EventsNamed(m, name) == SelectSeq(m.events, LAMBDA e : e.name = name)
Payloads(m, name) == [i \in 1..Len(EventsNamed(m, name)) |-> EventsNamed(m, name)[i].payload]
\* the initialization bytes handed to listeners
InitializationBytes(m) ==
    [i \in 1..Len(Payloads(m, "initialized")) |-> Payloads(m, "initialized")[i].initialization]
\* the segment byte strings handed to listeners
SegmentBytes(m) ==
    [i \in 1..Len(Payloads(m, "segment")) |-> Payloads(m, "segment")[i].segment]
\* bytes, sequence number and keyframe flag of each segment event
SegmentTriples(m) ==
    [i \in 1..Len(Payloads(m, "segment")) |->
        LET p == Payloads(m, "segment")[i] IN <<p.segment, p.sequence, p.keyframe>>]

\* the same options and the same stream written as one chunk
OneChunk == [o \in OptionSet |-> [k \in MainStreams |->
                _transform(constructor(o), StreamBytes[k], StartTime)]]

\* the number of mdat boxes of the stream that have been written to their end
CompletedMdats ==
    Cardinality({k \in 1..Len(Streams[stream]) :
        /\ Streams[stream][k].kind = "mdat"
        /\ BoxStart(Streams[stream], k) + Len(Streams[stream][k].bytes) <= Position})

\* C1: once a valid stream has been written to its end, however it was cut
\* into chunks, the initialization bytes and the segment byte strings emitted
\* are those of the same stream written as one chunk, and no error event was
\* emitted.
C1_AnyChunking ==
    (IsValidStream(stream) /\ resets = 0 /\ input = <<>>) =>
        /\ InitializationBytes(mp4frag) = InitializationBytes(OneChunk[options][stream])
        /\ SegmentBytes(mp4frag) = SegmentBytes(OneChunk[options][stream])
        /\ Payloads(mp4frag, "error") = <<>>

\* C2: after resetCache, while a valid stream is written, the initialized
\* payloads and the segment events (bytes, sequence number, keyframe flag)
\* are those of a newly constructed instance with the same options that is
\* written the same chunks.
C2_ResetAsNew ==
    (resets > 0 /\ IsValidStream(stream)) =>
        /\ Payloads(mp4frag, "initialized") = Payloads(fresh, "initialized")
        /\ SegmentTriples(mp4frag) = SegmentTriples(fresh)

Ring == IF IsSet(mp4frag.segmentObjects) THEN Get(mp4frag.segmentObjects) ELSE <<>>
\* a playlist is generated
PlaylistMode == TruthyString(mp4frag.hlsPlaylistBase)

RECURSIVE DurationSum(_)
\* the durations of the first n ring entries added up as JS numbers
DurationSum(n) ==
    IF n = 0 THEN DZero ELSE DAdd(DurationSum(n - 1), ToDouble(mp4frag, Ring[n].duration))
RECURSIVE ByteSum(_)
\* the byte lengths of the first n ring entries added up
ByteSum(n) == IF n = 0 THEN 0 ELSE ByteSum(n - 1) + Len(Ring[n].segment)

\* C4: with a ring configured and a segment in it, totalDuration is the sum
\* of the durations of the segments in the ring and totalByteLength is the
\* byte length of the initialization plus the byte lengths of those segments.
C4_TotalsAreRingSums ==
    Len(Ring) > 0 =>
        /\ totalDurationOf(mp4frag) = DurationSum(Len(Ring))
        /\ totalByteLengthOf(mp4frag)
              = Len(Get(initializationOf(mp4frag))) + ByteSum(Len(Ring))

\* C5: the ring is never longer than its capacity, and after n segment
\* events it holds the last min(n, capacity) of them, oldest first.
C5_RingHoldsLast ==
    IsSet(mp4frag.segmentObjects) =>
        LET segs == Payloads(mp4frag, "segment")
            n == Len(segs)
            capacity == IF PlaylistMode
                        THEN Get(mp4frag.hlsPlaylistSize) + Get(mp4frag.hlsPlaylistExtra)
                        ELSE Get(mp4frag.segmentCount)
            held == Min2(n, capacity)
        IN /\ Len(Ring) <= capacity
           /\ Len(Ring) = held
           /\ \A i \in 1..held :
                 /\ Some(Ring[i].segment) = segs[n - held + i].segment
                 /\ Ring[i].sequence = segs[n - held + i].sequence

\* the ring is full and its oldest segment has been evicted
C5_Witness ==
    /\ IsSet(mp4frag.segmentObjects)
    /\ ~PlaylistMode
    /\ Len(Payloads(mp4frag, "segment")) = 3
    /\ Len(Ring) = Get(mp4frag.segmentCount)
    /\ Ring[1].sequence = 1

\* the sequence numbers getSegmentObject is asked for: not a number, -1, 0 ...
MaxAsked == 3
Asked == {undefined} \cup {Some(s) : s \in -1..MaxAsked}

\* C6: with a ring, getSegmentObject(s) is the ring entry whose sequence is
\* s, which lies between the oldest and the newest sequence in the ring, and
\* is null when there is no such entry, when s is not a number and when the
\* ring is empty.
C6_GetSegmentObject ==
    IsSet(mp4frag.segmentObjects) =>
        \A s \in Asked :
            LET hits == {i \in 1..Len(Ring) : IsSet(s) /\ Ring[i].sequence = Get(s)}
                got == getSegmentObject(mp4frag, s)
            IN IF hits = {} THEN got = null
               ELSE /\ \E i \in hits : got = Some(Ring[i])
                    /\ Ring[1].sequence <= Get(s)
                    /\ Get(s) <= Ring[Len(Ring)].sequence

\* segment 0 has left the ring: asked for 1 or 2 a segment is returned,
\* asked for 0 or 3 null is
C6_Witness ==
    /\ Len(Ring) = 2
    /\ Ring[1].sequence = 1
    /\ getSegmentObject(mp4frag, Some(0)) = null
    /\ getSegmentObject(mp4frag, Some(1)) = Some(Ring[1])
    /\ getSegmentObject(mp4frag, Some(3)) = null

\* the ring entries the playlist window covers: the last min(length, size)
Window ==
    LET n == Min2(Len(Ring), Get(mp4frag.hlsPlaylistSize))
    IN [k \in 1..n |-> Ring[Len(Ring) - n + k]]
\* the longest duration in the window, in units
WindowMaxDuration ==
    CHOOSE d \in {Window[k].duration : k \in 1..Len(Window)} :
        \A k \in 1..Len(Window) : Window[k].duration <= d

\* C7: in playlist mode, once a segment is in the ring, the playlist's
\* media sequence is the sequence number of the oldest segment of the window
\* and its target duration is max(1, round(longest duration in the window)).
C7_PlaylistHeader ==
    (PlaylistMode /\ Len(Ring) > 0) =>
        /\ IsSet(m3u8Of(mp4frag))
        /\ LET m3u8 == Get(m3u8Of(mp4frag))
               unit == SecondUnits(mp4frag)
               target == m3u8.targetDuration
           IN /\ m3u8.mediaSequence = Window[1].sequence
              /\ \/ target = 1 /\ 2 * WindowMaxDuration < 3 * unit
                 \/ /\ target > 1
                    /\ (2 * target - 1) * unit <= 2 * WindowMaxDuration
                    /\ 2 * WindowMaxDuration < (2 * target + 1) * unit

\* the window has moved past segment 0 and its longest segment lasts 2.5 s
C7_Witness ==
    /\ PlaylistMode
    /\ Len(Ring) = 3
    /\ 2 * WindowMaxDuration = 5 * SecondUnits(mp4frag)
    /\ Get(m3u8Of(mp4frag)).targetDuration = 3
    /\ Get(m3u8Of(mp4frag)).mediaSequence = 1

\* C8: in playlist mode, once a segment is in the ring, the playlist lists
\* the last min(ring length, hlsPlaylistSize) ring entries, oldest first,
\* with consecutive sequence numbers that end at the latest one, each with
\* the URI <base><sequence>.m4s; older ring entries are not listed.
C8_PlaylistBody ==
    (PlaylistMode /\ Len(Ring) > 0) =>
        /\ IsSet(m3u8Of(mp4frag))
        /\ LET listed == Get(m3u8Of(mp4frag)).segments
               n == Min2(Len(Ring), Get(mp4frag.hlsPlaylistSize))
           IN /\ Len(listed) = n
              /\ \A k \in 1..n :
                    /\ listed[k].uri = <<Get(mp4frag.hlsPlaylistBase), Window[k].sequence>>
                    /\ Window[k].sequence = sequenceOf(mp4frag) - n + k

\* the ring holds one segment more than the playlist lists
C8_Witness ==
    /\ PlaylistMode
    /\ Len(Ring) = Get(mp4frag.hlsPlaylistSize) + 1
    /\ Len(Get(m3u8Of(mp4frag)).segments) = Get(mp4frag.hlsPlaylistSize)

\* the stream holds GarbageLen bytes of garbage right before a moof box
GarbageBeforeMoof(k) ==
    \E b \in 1..(Len(Streams[k]) - 2) :
        /\ Streams[k][b].kind = "garbage" /\ Len(Streams[k][b].bytes) = GarbageLen
        /\ Streams[k][b + 1].kind = "moof" /\ Streams[k][b + 2].kind = "mdat"
\* the moof and mdat that follow the garbage
AfterGarbage(k) ==
    LET b == CHOOSE b \in 1..(Len(Streams[k]) - 2) : Streams[k][b].kind = "garbage"
    IN Streams[k][b + 1].bytes \o Streams[k][b + 2].bytes

GarbageChunks == cuts + (IF input = <<>> THEN 1 ELSE 0)

\* C10 as stated: once the 1000 bytes of garbage are written to a parser that
\* seeks a moof, an error event has been emitted, however they were cut into
\* chunks.
C10_AnyChunkingFails == input = <<>> => Payloads(mp4frag, "error") # <<>>

\* C10 as the code has it: the first 50 chunks of garbage emit no error
\* event, the 51st and every later chunk emit one each; so an error event
\* is emitted exactly when the garbage arrives in at least 51 chunks.
C10_FailsFromChunk51 ==
    Len(Payloads(mp4frag, "error")) = Max2(0, GarbageChunks - 50)

\* the garbage has arrived in more than 50 chunks and the error was emitted
C10_Witness ==
    /\ input = <<>>
    /\ GarbageChunks > 50
    /\ Payloads(mp4frag, "error") # <<>>

\* the names of the events emitted since the last reset, in order
EventNames == [i \in 1..Len(mp4frag.events) |-> mp4frag.events[i].name]
\* the offset at which the moov box of the stream ends
MoovEnd == BoxStart(Streams[stream], 3)

\* C11: since construction or the last reset, the initialized event was
\* emitted at most once, every segment event came after it, and when no chunk
\* ended inside a box and the moov box (which names a codec) has been written
\* it was emitted exactly once.
C11_InitializedOnce ==
    /\ Len(Payloads(mp4frag, "initialized")) <= 1
    /\ \A i \in 1..Len(EventNames) :
          EventNames[i] = "segment" =>
              \E j \in 1..(i - 1) : EventNames[j] = "initialized"
    /\ (cuts = 0 /\ Position >= MoovEnd) => Len(Payloads(mp4frag, "initialized")) = 1

\* after a reset the stream was initialized again, once, and gave a segment
C11_Witness ==
    /\ resets = 1
    /\ cuts = 0
    /\ Len(Payloads(mp4frag, "initialized")) = 1
    /\ Len(Payloads(mp4frag, "segment")) >= 1

\* the messages of the error events emitted since the last reset, by
\* position in the event list ("" where the event is no error)
ErrorAt == [i \in 1..Len(mp4frag.events) |->
               IF mp4frag.events[i].name = "error" THEN mp4frag.events[i].payload ELSE ""]

\* C12: once the error 'codecs not found.' has been emitted, no initialized
\* event has been emitted and no segment event follows it before a reset.
C12_CodecMissingIsFatal ==
    \A i \in 1..Len(EventNames) :
        ErrorAt[i] = "codecs not found." =>
            /\ Payloads(mp4frag, "initialized") = <<>>
            /\ \A j \in (i + 1)..Len(EventNames) : EventNames[j] # "segment"

\* the messages of the errors the seek stages emit for a box that is not
\* where or what it should be
StructuralErrors ==
    {"ftyp not found.", "ftypLength > chunkLength", "moov not found.",
     "moovLength > chunkLength", "moof length of 0.", "mdat not found."}

\* C13: after a structural error no initialized event and no segment event
\* is emitted before the next reset, whatever chunks are written.
C13_FatalUntilReset ==
    \A i \in 1..Len(EventNames) :
        ErrorAt[i] \in StructuralErrors =>
            \A j \in (i + 1)..Len(EventNames) : EventNames[j] \notin {"initialized", "segment"}

\* the stage whose code (or, for the codecs, whose callee's code) emits the error
StageOfError(message) ==
    CASE message \in {"ftyp not found.", "ftypLength > chunkLength"} -> "_findFtyp"
      [] message \in {"moov not found.", "moovLength > chunkLength", "codecs not found."}
            -> "_findMoov"
      [] message = "moof length of 0." -> "_findMoof"
      [] message = "moof search failed after attempts." -> "_moofSearch"
      [] message = "mdat not found." -> "_findMdat"

\* C14: when a written chunk emits an error event, the stage after the chunk
\* is the stage that detected the error.
C14_ErrorKeepsStage ==
    [][resets' = resets =>
          \A i \in (Len(mp4frag.events) + 1)..Len(mp4frag'.events) :
              mp4frag'.events[i].name = "error" =>
                  mp4frag'.parseChunk = StageOfError(mp4frag'.events[i].payload)]_vars

\* C15: no error message is emitted twice between resets: once the moof
\* search (or a seek stage) has emitted its error, later chunks do not emit
\* that error again.
C15_ReportedOnce ==
    \A i \in 1..Len(EventNames) : \A j \in (i + 1)..Len(EventNames) :
        ErrorAt[i] # "" => ErrorAt[j] # ErrorAt[i]

\* C16: right after resetCache, before anything is written, the stage is
\* _findFtyp and the buffers, buffered sizes, box lengths and the search
\* counter of the moof and mdat accumulation are all undefined.
C16_ResetClearsAll ==
    (resets > 0 /\ input = StreamBytes[stream]) =>
        /\ mp4frag.parseChunk = "_findFtyp"
        /\ \A field \in {"ftyp", "ftypLength", "moof", "moofLength", "moofBuffer",
                          "moofBufferSize", "moofSearches", "mdatBuffer", "mdatLength",
                          "mdatBufferSize"} : mp4frag[field] = undefined

\* C17: an instance constructed with no options, or with options that give
\* neither hlsPlaylistBase nor segmentCount, keeps the last 2 segments: once
\* segments have been emitted segmentObjects is not null, holds the last
\* min(2, n) of them, and getSegmentObject(latest sequence) is the latest.
C17_DefaultRing ==
    LET plain == \/ ~IsSet(options)
                 \/ /\ Get(options).hlsPlaylistBase.t = "undefined"
                    /\ Get(options).segmentCount.t = "undefined"
        n == Len(Payloads(mp4frag, "segment"))
    IN (plain /\ n > 0) =>
          /\ segmentObjectsOf(mp4frag) # null
          /\ Len(Ring) = Min2(_SEG_SIZE_DEF, n)
          /\ getSegmentObject(mp4frag, Some(sequenceOf(mp4frag))) # null

\* C18: for every supplied hlsPlaylistSize, hlsPlaylistExtra and
\* segmentCount (absent, not a number, below, in or above the range) the
\* constructor does not throw; with hlsPlaylistBase given, the playlist size
\* and the extra count are the values of [2,20] and [0,10] nearest to the
\* supplied numbers (4 and 0 for what is not a number) and the ring capacity
\* is their sum, in [2,30], whatever segmentCount is; without it, a supplied
\* segmentCount gives the capacity of [2,30] nearest to it (2 for what is
\* not a number).
C18_NumericOptionsClamped ==
    IsSet(options) =>
        LET o == Get(options)
            Nearest(n, def, min, max) ==
                IF n.t # "number" THEN def
                ELSE CHOOSE x \in min..max :
                        \A y \in min..max :
                            (IF x < n.v THEN n.v - x ELSE x - n.v)
                               <= (IF y < n.v THEN n.v - y ELSE y - n.v)
            size == Nearest(o.hlsPlaylistSize, 4, 2, 20)
            extra == Nearest(o.hlsPlaylistExtra, 0, 0, 10)
        IN /\ ~mp4frag.thrown
           /\ o.hlsPlaylistBase.t # "undefined" =>
                 /\ mp4frag.hlsPlaylistSize = Some(size)
                 /\ mp4frag.hlsPlaylistExtra = Some(extra)
                 /\ mp4frag.segmentCount = Some(size + extra)
                 /\ size + extra \in 2..30
                 /\ mp4frag.segmentObjects = Some(<<>>)
           /\ (o.hlsPlaylistBase.t = "undefined" /\ o.segmentCount.t # "undefined") =>
                 /\ mp4frag.segmentCount = Some(Nearest(o.segmentCount, 2, 2, 30))
                 /\ mp4frag.segmentObjects = Some(<<>>)

\* constructed with a playlist base, a size above its range, an extra count
\* below its range and a segmentCount above its range
C18_Witness ==
    /\ IsSet(options)
    /\ Get(options).hlsPlaylistBase.t = "string"
    /\ Get(options).hlsPlaylistSize = JsNumber(_HLS_SIZE_MAX + 1)
    /\ Get(options).hlsPlaylistExtra = JsNumber(_HLS_EXTRA_MIN - 1)
    /\ Get(options).segmentCount = JsNumber(_SEG_SIZE_MAX + 1)
    /\ mp4frag.segmentCount = Some(_HLS_SIZE_MAX)

\* C19: before the initialized event m3u8 is null; between it and the first
\* segment event m3u8 is non-null exactly when hlsPlaylistBase was given and
\* hlsPlaylistInit was not given as false, it then has target duration 1,
\* media sequence 0, the map line of the base and no segment entry, and in
\* either case it is the m3u8 value the initialized event carried.
C19_ImmediatePlaylist ==
    LET inits == Payloads(mp4frag, "initialized")
        wanted == /\ IsSet(options)
                  /\ Get(options).hlsPlaylistBase.t = "string"
                  /\ Get(options).hlsPlaylistBase.v # ""
                  /\ Get(options).hlsPlaylistInit # JsBoolean(FALSE)
    IN /\ (inits = <<>> /\ Payloads(mp4frag, "segment") = <<>>) => m3u8Of(mp4frag) = null
       /\ (inits # <<>> /\ Payloads(mp4frag, "segment") = <<>>) =>
             /\ IsSet(m3u8Of(mp4frag)) <=> wanted
             /\ wanted => m3u8Of(mp4frag) =
                    Some([targetDuration |-> 1, mediaSequence |-> 0,
                          map |-> Get(options).hlsPlaylistBase.v, segments |-> <<>>])
             /\ inits[1].m3u8 = m3u8Of(mp4frag)

\* initialized with a playlist base, no segment yet, and the playlist is there
C19_Witness ==
    /\ Len(Payloads(mp4frag, "initialized")) = 1
    /\ Payloads(mp4frag, "segment") = <<>>
    /\ IsSet(m3u8Of(mp4frag))
    /\ Payloads(mp4frag, "initialized")[1].m3u8 = m3u8Of(mp4frag)

\* C20: as long as no segment event has been emitted (since construction or
\* the last reset), before and after the initialized event, the timestamp
\* accessor returns -1 and segmentObject is
\* {segment: null, sequence: -1, duration: -1, timestamp: -1, keyframe: true}.
C20_NothingBeforeFirstSegment ==
    Payloads(mp4frag, "segment") = <<>> =>
        /\ timestampOf(mp4frag) = -1
        /\ segmentObjectOf(mp4frag) =
              [segment |-> null, sequence |-> -1, duration |-> -1,
               timestamp |-> -1, keyframe |-> TRUE]

(***************************************************************************)
(* Keyframes, the end of the file, the parse stages, recovery, durations.  *)
(***************************************************************************)
\* the keyframe flags of the segment events, in order
KeyframeFlags == [i \in 1..Len(Payloads(mp4frag, "segment")) |->
                     Payloads(mp4frag, "segment")[i].keyframe]

\* C21: allKeyframes is true as long as every segment emitted (since
\* construction or the last reset) has keyframe true, and false from the
\* first segment with keyframe false on, whatever the later segments hold;
\* on an audio-only stream every segment has keyframe true and allKeyframes
\* stays true.
C21_AllKeyframesSticks ==
    /\ allKeyframesOf(mp4frag) = (\A i \in 1..Len(KeyframeFlags) : KeyframeFlags[i])
    /\ stream = AudioStream =>
          allKeyframesOf(mp4frag) /\ keyframeOf(mp4frag)

\* a keyframe segment after a segment that was none
C21_Witness ==
    /\ Len(KeyframeFlags) = 3
    /\ ~KeyframeFlags[2] /\ KeyframeFlags[3]
    /\ ~allKeyframesOf(mp4frag)

\* two segments of the audio-only stream
C21_AudioWitness == stream = AudioStream /\ Len(KeyframeFlags) = 2

RECURSIVE NalFirstBytes(_, _)
\* the first bytes of the length-prefixed NAL units of a segment from the
\* (0-based) offset index on
NalFirstBytes(bytes, index) ==
    IF index + 5 <= Len(bytes)
    THEN <<bytes[index + 5]>> \o NalFirstBytes(bytes, index + 4 + ReadUInt32BE(bytes, index))
    ELSE <<>>

\* the first bytes of the NAL units of the segment of a segment object: the
\* mdat payload starts 8 bytes past the moof, whose length is the segment's
\* first 4 bytes
SegmentNals(segment) == NalFirstBytes(Get(segment), ReadUInt32BE(Get(segment), 0) + 8)

SegmentEvents == Payloads(mp4frag, "segment")

\* C22: on an AVC stream, the keyframe flag of every segment emitted is true
\* if and only if one of the segment's NAL units has a first byte whose low
\* 5 bits are 5; a first NAL byte 0x65 gives true, a single NAL unit 0x41
\* gives false.
C22_AvcKeyframe ==
    stream \in {AvcStream, NoTrunStream} \cup MainStreams =>
        \A i \in 1..Len(SegmentEvents) :
            LET nals == SegmentNals(SegmentEvents[i].segment) IN
            /\ SegmentEvents[i].keyframe = (\E k \in 1..Len(nals) : nals[k] % 32 = 5)
            /\ (nals # <<>> /\ nals[1] = 101) => SegmentEvents[i].keyframe
            /\ nals = <<65>> => ~SegmentEvents[i].keyframe

\* a segment that is a keyframe by its second NAL unit, then one that is none
C22_Witness ==
    /\ stream = AvcStream
    /\ Len(SegmentEvents) >= 3
    /\ SegmentNals(SegmentEvents[1].segment) = <<65, 101>> /\ SegmentEvents[1].keyframe
    /\ SegmentNals(SegmentEvents[2].segment) = <<65>> /\ ~SegmentEvents[2].keyframe
    /\ SegmentNals(SegmentEvents[3].segment) = <<101>> /\ SegmentEvents[3].keyframe

\* the NAL type of an HEVC NAL unit: bits 1-6 of its first byte
HevcNalType(byte) == (byte \div 2) % 64

\* C23: on an HEVC stream, the keyframe flag of every segment emitted is
\* true if and only if one of the segment's NAL units has a type in 16..21.
C23_HevcKeyframe ==
    stream = HevcStream =>
        \A i \in 1..Len(SegmentEvents) :
            LET nals == SegmentNals(SegmentEvents[i].segment) IN
            SegmentEvents[i].keyframe = (\E k \in 1..Len(nals) : HevcNalType(nals[k]) \in 16..21)

\* the chunk a Write step writes
Written == SubSeq(input, 1, Len(input) - Len(input'))

\* the instance waits for the first bytes of a moof
SeekMoof(m) == m.parseChunk = "_findMoof" /\ ~IsSet(m.moofBuffer)

\* C24: a chunk that SEEK_MOOF receives without the moof tag at offset 4
\* and with an mfra tag in it is dropped silently: no event is emitted, the
\* recovery scanner is not entered, the attempt counter is not touched, and
\* the stage stays SEEK_MOOF; the same holds when the mfra is what is left
\* of a chunk after the last segment of the file.
C24_MfraEndsSilently ==
    [][ /\ ( /\ Len(input') < Len(input)
             /\ SeekMoof(mp4frag)
             /\ (Len(Written) < 8 \/ IndexOf(Written, _MOOF) # 4)
             /\ IndexOf(Written, _MFRA) # -1 )
           => mp4frag' = [mp4frag EXCEPT !.thrown = FALSE]
        /\ ( /\ Len(input') < Len(input)
             /\ stream = AvcStream /\ input' = <<>> /\ cuts' = 0 /\ resets' = 0 )
           => /\ SeekMoof(mp4frag')
              /\ ~IsSet(mp4frag'.moofSearches)
              /\ mp4frag'.resyncs = 0
              /\ [i \in 1..Len(mp4frag'.events) |-> mp4frag'.events[i].name]
                   = <<"initialized", "segment", "segment", "segment">>
      ]_vars

\* the whole file has been written in chunks of whole boxes
C24_Witness ==
    /\ stream = AvcStream /\ input = <<>> /\ cuts = 0 /\ resets = 0
    /\ SeekMoof(mp4frag)
    /\ Len(SegmentEvents) = 3

\* the stage of the state machine an instance is in
StageName(m) ==
    CASE m.parseChunk = "_findFtyp" -> "SEEK_FTYP"
      [] m.parseChunk = "_findMoov" -> "SEEK_MOOV"
      [] m.parseChunk = "_findMoof" -> IF IsSet(m.moofBuffer) THEN "ACCUM_MOOF" ELSE "SEEK_MOOF"
      [] m.parseChunk = "_findMdat" -> IF IsSet(m.mdatBuffer) THEN "ACCUM_MDAT" ELSE "SEEK_MDAT"
      [] m.parseChunk = "_moofSearch" -> "MOOF_RECOVERY"

RECURSIVE StagePath(_, _, _)
\* the stages an instance is in before and after each stage function that
\* one write calls
StagePath(m, chunk, now) ==
    LET Run(r) == <<StageName(m)>> \o
                  (IF IsSet(r.next) THEN StagePath(r.m, Get(r.next), now)
                   ELSE <<StageName(r.m)>>)
    IN Run(Stage(m, chunk, now))

StageEdges ==
    { <<"SEEK_FTYP", "SEEK_MOOV">>, <<"SEEK_MOOV", "SEEK_MOOF">>,
      <<"SEEK_MOOF", "ACCUM_MOOF">>, <<"SEEK_MOOF", "SEEK_MDAT">>,
      <<"ACCUM_MOOF", "SEEK_MDAT">>, <<"SEEK_MDAT", "ACCUM_MDAT">>,
      <<"SEEK_MDAT", "SEEK_MOOF">>, <<"ACCUM_MDAT", "SEEK_MOOF">>,
      <<"SEEK_MOOF", "MOOF_RECOVERY">>, <<"MOOF_RECOVERY", "SEEK_MOOF">> }

\* C25: within a write the stage changes only along the edges of
\* StageEdges, and between calls it changes only by a reset, to SEEK_FTYP.
C25_StageEdges ==
    [][ /\ Len(input') < Len(input) =>
              LET path == StagePath([mp4frag EXCEPT !.thrown = FALSE], Written, clock) IN
              /\ path[Len(path)] = StageName(mp4frag')
              /\ \A i \in 1..(Len(path) - 1) :
                    path[i] = path[i + 1] \/ <<path[i], path[i + 1]>> \in StageEdges
        /\ ~(Len(input') < Len(input)) =>
              \/ StageName(mp4frag') = StageName(mp4frag)
              \/ resets' = resets + 1 /\ StageName(mp4frag') = "SEEK_FTYP"
      ]_vars

\* the error events a step adds
NewErrors ==
    LET new == SubSeq(mp4frag'.events, Len(mp4frag.events) + 1, Len(mp4frag'.events))
    IN SelectSeq(new, LAMBDA e : e.name = "error")

ResyncExhausted == [name |-> "error", payload |-> "moof search failed after attempts."]

\* C26: the attempt counter is at most 50.  _findMoof entering the recovery
\* scanner leaves it at 1; each chunk that arrives in MOOF_RECOVERY with a
\* counter below 50 and without a moof tag at index >= 4 raises it by one and
\* emits nothing; one with such a tag clears it and resyncs; a chunk that
\* arrives with the counter at 50 emits the error and nothing else; and
\* the error is emitted by no other chunk.
C26_RecoveryCounter ==
    [][ LET searches == mp4frag.moofSearches
            found == IndexOf(Written, _MOOF) >= 4
        IN
        /\ IsSet(mp4frag'.moofSearches) => Get(mp4frag'.moofSearches) \in 0.._MOOF_SEARCH_LIMIT
        /\ Len(input') < Len(input) =>
            /\ ( /\ SeekMoof(mp4frag)
                 /\ (Len(Written) < 8 \/ IndexOf(Written, _MOOF) # 4)
                 /\ IndexOf(Written, _MFRA) = -1 /\ ~found )
               => /\ mp4frag'.parseChunk = "_moofSearch"
                  /\ mp4frag'.moofSearches = Some(1)
                  /\ NewErrors = <<>>
            /\ ( mp4frag.parseChunk = "_moofSearch" /\ Get(searches) < 50 /\ ~found )
               => /\ mp4frag'.parseChunk = "_moofSearch"
                  /\ mp4frag'.moofSearches = Some(Get(searches) + 1)
                  /\ mp4frag'.events = mp4frag.events
            /\ ( mp4frag.parseChunk = "_moofSearch" /\ Get(searches) < 50 /\ found )
               => /\ mp4frag'.resyncs = mp4frag.resyncs + 1
                  /\ mp4frag'.parseChunk # "_moofSearch" => ~IsSet(mp4frag'.moofSearches)
            /\ ( mp4frag.parseChunk = "_moofSearch" /\ Get(searches) = 50 )
               => mp4frag' = [mp4frag EXCEPT !.thrown = FALSE,
                                             !.events = Append(@, ResyncExhausted)]
            /\ ( \E i \in 1..Len(NewErrors) : NewErrors[i] = ResyncExhausted )
               => mp4frag.parseChunk = "_moofSearch" /\ Get(searches) = 50
      ]_vars

\* the counter was cleared by a resync after some failed attempts, and the
\* segment after the garbage was emitted
C26_Witness ==
    /\ mp4frag.resyncs = 1
    /\ ~IsSet(mp4frag.moofSearches)
    /\ cuts > 3
    /\ input = <<>>
    /\ Payloads(mp4frag, "error") = <<>>

\* the counter at its limit and the error emitted
C26_ExhaustedWitness ==
    /\ mp4frag.moofSearches = Some(_MOOF_SEARCH_LIMIT)
    /\ Payloads(mp4frag, "error") # <<>>

\* the events a step adds
NewEvents == SubSeq(mp4frag'.events, Len(mp4frag.events) + 1, Len(mp4frag'.events))

\* a chunk starts with a box of the given tag: 8 bytes or more, the tag at offset 4
StartsWith(chunk, tag) == Len(chunk) >= 8 /\ IndexOf(chunk, tag) = 4

\* the instance after a write of chunk cut in two at offset at
WrittenInTwo(m, chunk, at, now) ==
    _transform(_transform(m, SubSeq(chunk, 1, at), now), SliceFrom(chunk, at), now)

C27_MoovWitness ==
    /\ Payloads(mp4frag, "error") # <<>>
    /\ Payloads(mp4frag, "error")[1] = "moovLength > chunkLength"
    /\ mp4frag.parseChunk = "_findMoov"
    /\ resets = 0

\* the moof boxes of the stream being written that an mdat box follows,
\* each with that mdat
MoofMdatPairs ==
    { Streams[stream][k].bytes \o Streams[stream][k + 1].bytes :
        k \in { j \in 1..(Len(Streams[stream]) - 1) :
                  Streams[stream][j].kind = "moof" /\ Streams[stream][j + 1].kind = "mdat" } }

\* the bytes are a box tagged moof and a box tagged mdat of the lengths they declare
MoofThenMdat(bytes) ==
    /\ StartsWith(bytes, _MOOF)
    /\ LET moofLength == ReadUInt32BE(bytes, 0) IN
       /\ StartsWith(SliceFrom(bytes, moofLength), _MDAT)
       /\ Len(bytes) = moofLength + ReadUInt32BE(bytes, moofLength)

\* C28: the bytes of every segment emitted are a moof box of the stream
\* followed by its mdat box, of the declared moof length plus the declared
\* mdat length; and when every chunk ends at a box boundary, every mdat
\* written so far has given its segment, the bytes after a box in a chunk
\* having been parsed as the next box.
C28_SegmentIsMoofAndMdat ==
    /\ \A i \in 1..Len(SegmentEvents) :
          /\ Get(SegmentEvents[i].segment) \in MoofMdatPairs
          /\ MoofThenMdat(Get(SegmentEvents[i].segment))
    /\ (cuts = 0 /\ resets = 0) => Len(SegmentEvents) = CompletedMdats

\* the moof boxes the producer writes, each with the duration of its
\* fragment in ticks of the timescale: the sum of its trun sample durations,
\* or its tfhd default duration times its sample count; 0 when it gives none
KnownMoofs ==
    { <<MoofBox(<<d>>), d>> : d \in {0, 1, 15, 25} }
    \cup { <<TfhdMoofBox(7, 3), 7 * 3>>, <<NoTrunMoofBox, 0>> }

MoofTicks(segment) ==
    LET moof == SubSeq(Get(segment), 1, ReadUInt32BE(Get(segment), 0))
    IN (CHOOSE p \in KnownMoofs : p[1] = moof)[2]

\* the segment objects a step emits
NewSegments ==
    LET new == SelectSeq(NewEvents, LAMBDA e : e.name = "segment")
    IN [j \in 1..Len(new) |-> new[j].payload]

\* C29: every segment emitted carries the current time as its timestamp,
\* and as its duration the duration its moof gives (trun sample durations,
\* or tfhd default duration times sample count) when that is not 0, and
\* otherwise the time elapsed since the previous timestamp (that of the
\* segment before, or of the initialization); and every fragment written,
\* with or without a trun, gives its segment.  Durations are in units of
\* 1/(1000 * timescale) s.
C29_SegmentDuration ==
    [][ Len(input') < Len(input) =>
        LET new == NewSegments
            previous(j) ==
                IF j > 1 THEN new[j - 1].timestamp
                ELSE IF \E i \in 1..Len(NewEvents) : NewEvents[i].name = "initialized"
                     THEN clock ELSE Get(mp4frag.timestamp)
        IN
        /\ \A j \in 1..Len(new) :
              /\ new[j].timestamp = clock
              /\ new[j].duration =
                    IF MoofTicks(new[j].segment) # 0
                    THEN MoofTicks(new[j].segment) * 1000
                    ELSE (clock - previous(j)) * Get(mp4frag'.timescale)
        /\ (cuts' = 0 /\ resets' = 0) =>
              Len(SelectSeq(mp4frag'.events, LAMBDA e : e.name = "segment"))
                 = Cardinality({k \in 1..Len(Streams[stream]) :
                      /\ Streams[stream][k].kind = "mdat"
                      /\ BoxStart(Streams[stream], k) + Len(Streams[stream][k].bytes)
                            <= Len(StreamBytes[stream]) - Len(input')})
      ]_vars

RECURSIVE ChunkLengths(_, _, _)
\* the lengths of the chunks that the stage functions of one write are
\* called with: the chunk written, then what is left at each re-entry
ChunkLengths(m, chunk, now) ==
    LET Run(r) == <<Len(chunk)>> \o
                  (IF IsSet(r.next) THEN ChunkLengths(r.m, Get(r.next), now) ELSE <<>>)
    IN Run(Stage(m, chunk, now))

\* C30: every write returns with its callback called (no exception leaves
\* _transform before it), and every re-entry of the parser on what is left
\* of the chunk is on fewer bytes than the call before it.
C30_OneCallbackPerChunk ==
    [][ Len(input') < Len(input) =>
        /\ ~mp4frag'.thrown
        /\ LET lengths == ChunkLengths([mp4frag EXCEPT !.thrown = FALSE], Written, clock)
           IN \A i \in 1..(Len(lengths) - 1) : lengths[i + 1] < lengths[i]
      ]_vars

(***************************************************************************)
(* The ring and the segment event; chunkings that keep box heads whole.    *)
(***************************************************************************)
\* C31: the entries of the ring carry consecutive sequence numbers in the
\* order they were pushed and, when the ring is not empty, the sequence of
\* its last entry is what the sequence accessor returns.
C31_RingSequences ==
    /\ \A i \in 1..(Len(Ring) - 1) : Ring[i + 1].sequence = Ring[i].sequence + 1
    /\ Len(Ring) > 0 => Ring[Len(Ring)].sequence = sequenceOf(mp4frag)

\* the oldest entry has been evicted: the ring holds segments 1 and 2
C31_Witness ==
    /\ Len(Ring) = 2
    /\ Ring[1].sequence = 1
    /\ sequenceOf(mp4frag) = 2

\* a ring filled after an error event
C31_ErrorWitness ==
    /\ Len(Ring) = 2
    /\ Payloads(mp4frag, "error") # <<>>

\* a ring filled across a resynchronization
C31_ResyncWitness == Len(Ring) = 2 /\ mp4frag.resyncs = 1

\* C32: what a listener reads when the segment event with sequence n is
\* delivered.  On an instance with a ring: the ring ends with segment n, is
\* not longer than segmentCount, getSegmentObject(n) is that entry,
\* totalByteLength is the initialization plus the segments of the ring, and
\* with a playlist base the last entry of the playlist is <base>n.m4s.  On
\* every instance the totals include the segment (the first segment's
\* duration, when not 0, is the total), and nothing the listener read
\* changes after the delivery of the last segment.
C32_DeliveredAfterUpdate ==
    /\ Len(mp4frag.heard) = Len(SegmentEvents)
    /\ \A i \in 1..Len(SegmentEvents) :
          LET e == SegmentEvents[i]
              h == mp4frag.heard[i]
          IN
          /\ IsSet(mp4frag.segmentObjects) =>
                /\ h.segmentObjects # null
                /\ LET ring == Get(h.segmentObjects)
                       last == ring[Len(ring)]
                   IN /\ Some(last.segment) = e.segment
                      /\ last.sequence = e.sequence
                      /\ Len(ring) <= Get(mp4frag.segmentCount)
                      /\ h.latest = Some(last)
                      /\ h.totalByteLength
                            = Len(Get(initializationOf(mp4frag)))
                              + LET RECURSIVE Bytes(_)
                                    Bytes(k) == IF k = 0 THEN 0
                                                ELSE Bytes(k - 1) + Len(ring[k].segment)
                                IN Bytes(Len(ring))
                /\ PlaylistMode =>
                      /\ h.m3u8 # undefined
                      /\ LET listed == Get(h.m3u8).segments
                         IN listed[Len(listed)].uri
                               = <<Get(mp4frag.hlsPlaylistBase), e.sequence>>
          /\ ~IsSet(mp4frag.segmentObjects) =>
                h.totalByteLength = Len(Get(initializationOf(mp4frag))) + Len(Get(e.segment))
          /\ (i = 1 /\ e.duration # -1) => h.totalDuration = ToDouble(mp4frag, e.duration)
    /\ Len(mp4frag.heard) > 0 => mp4frag.heard[Len(mp4frag.heard)] = Heard(mp4frag)

\* deliveries with the ring full: the listener of segment 2 found segments 1
\* and 2 in the ring and <base>2.m4s last in the playlist
C32_Witness ==
    /\ PlaylistMode
    /\ Len(mp4frag.heard) = 3
    /\ Len(Get(mp4frag.heard[3].segmentObjects)) = Get(mp4frag.segmentCount)
    /\ SegmentEvents[3].sequence = 2

\* C33: while a valid stream is written in chunks that keep ftyp and moov
\* whole and cut a moof or an mdat only 8 bytes or more from its start, no
\* error event is emitted and the recovery scanner is not entered; and once
\* the stream has been written, the initialization bytes and the segment
\* events (bytes, sequence number, keyframe flag) are those of the stream
\* written as one chunk.
C33_AlignedChunking ==
    IsValidStream(stream) =>
        /\ Payloads(mp4frag, "error") = <<>>
        /\ mp4frag.parseChunk # "_moofSearch"
        /\ ~IsSet(mp4frag.moofSearches)
        /\ mp4frag.resyncs = 0
        /\ ~mp4frag.thrown
        /\ Len(SegmentEvents) = CompletedMdats
        /\ input = <<>> =>
              /\ InitializationBytes(mp4frag) = InitializationBytes(OneChunk[options][stream])
              /\ SegmentTriples(mp4frag) = SegmentTriples(OneChunk[options][stream])

\* the stream has been written with three chunk boundaries inside boxes
C33_Witness ==
    /\ IsValidStream(stream)
    /\ input = <<>>
    /\ cuts >= 3
    /\ Len(SegmentTriples(mp4frag)) = 3

====
